---------------------------- MODULE Spec2Model ----------------------------
(***************************************************************************)
(* QI price-history reconstruction pipeline of quaiqi-dashboard:           *)
(*   src/services/cryptoApi.ts        block locator cache, snapshot sampler *)
(*   src/services/qiHistoryServer.ts  start-block search, converter,       *)
(*                                    bucketing, smoothing, resampling,    *)
(*                                    densification                        *)
(*                                                                         *)
(* Numbers.  Block heights (bigint) and millisecond timestamps are         *)
(* integers.  Prices (float64) are exact rationals <<n, d>>, d > 0, in     *)
(* lowest terms, stored in units of 1e-18 so that the division of a raw    *)
(* rate by 1e18 stays inside the integer range of the model checker;      *)
(* float rounding is not modelled.  NaN is the separate value NaN.         *)
(***************************************************************************)
EXTENDS Integers, Sequences, FiniteSets, TLC

VARIABLES
  chainTs,      \* RPC: height -> header timestamp in seconds (woHeader.timestamp)
  chainRate,    \* RPC: height -> quai_qiToQuai result at that block (hex digits)
  head,         \* RPC: height the tag "latest" resolves to
  blockCache,   \* cryptoApi.ts blockCache: cache key -> BlockInfo
  lastQiToQuaiRate,  \* cryptoApi.ts: last rate fetched for "latest", or Null
  faultsLeft,   \* failed network responses the network may still give
  find,         \* frame of findBlockAtOrBeforeTimestamp
  samp,         \* frame of fetchQiToQuaiSnapshots
  pipe,         \* frame of fetchQiPriceHistoryFromRpc
  rs,           \* frame of one application of the resample step
  loc,          \* block locator: the fetchBlockInfo / resolveBlockNumber calls made
  stg,          \* frame of one application of a series stage
  usd           \* fetchQuaiUsdPrice: its frame, lastQuaiUsdPrice, quaiPriceHistory

vars == <<chainTs, chainRate, head, blockCache, lastQiToQuaiRate, faultsLeft, find,
          samp, pipe, rs, loc, stg, usd>>

\* the RPC node's chain: only HeadAdvance changes it
chain == <<chainTs, chainRate, head>>

(***************************************************************************)
(* Bounds of the model.                                                    *)
(***************************************************************************)
MaxHead == 6          \* highest chain head of the enumerated chains
MaxTsSec == 2         \* header timestamps of enumerated chains are 0..MaxTsSec
MaxFaults == 2        \* failed network responses per run
SampMaxHead == 3      \* chain head of the sampler's chains
SampMaxSamples == 4   \* largest maxSamples option given to the sampler
SampMaxStep == 2      \* largest |blockInterval| given to the sampler
SampMaxConc == 5      \* concurrency options are 0/2, 1/2, ..., SampMaxConc/2
PipeMaxHead == 2      \* highest chain head of the pipeline's enumerated chains
PipeMaxFaults == 1    \* failed network responses per run of the pipeline
RsMaxLen == 8         \* longest series given to the resample step
RsMaxTarget == 4      \* largest sample count asked of the resample step
LongHead == 1440      \* chain head of the pipeline's long regular chain
LocHead == 10         \* chain head of the block locator's chain
LocMaxCalls == 2      \* fetchBlockInfo calls of one run of the block locator
LocMaxLen == 3        \* longest string given as a block reference
LocMaxFaults == 1     \* failed network responses per run of the block locator
StgMaxSnapshots == 3  \* longest snapshot list given to the converter
StgMaxPoints == 4     \* longest series given to the bucketing stage
StgMaxGap == 3        \* largest gap between two points, in units of the series
StgMaxSmooth == 18    \* longest series given to smoothPoints
StgMaxVaried == 7     \* longest series given to smoothPoints with two prices
StgMaxDensify == 3    \* longest series given to densifyPoints
StgDensifyGap == 2    \* longest short gap of a series given to densifyPoints, in ms
StgLongGap == 1000    \* a gap longer than every segment count, in ms

Null == [null |-> TRUE]
NaN == [nan |-> TRUE]

Max(a, b) == IF a >= b THEN a ELSE b
Min(a, b) == IF a <= b THEN a ELSE b
Abs(a) == IF a < 0 THEN -a ELSE a

RECURSIVE SumTo(_, _)
SumTo(f, h) == IF h = 0 THEN 0 ELSE f[h] + SumTo(f, h - 1)

\* for (k = lo; k <= hi; k++) acc = Op(acc, k).  The range is split in
\* halves and the left half is evaluated before the right half is entered,
\* which keeps the evaluation stack logarithmic in hi - lo.
RECURSIVE ForLoop(_, _, _, _)
ForLoop(Op(_, _), acc, lo, hi) ==
  IF lo > hi THEN acc
  ELSE IF lo = hi THEN Op(acc, lo)
  ELSE LET mid == (lo + hi) \div 2
           left == ForLoop(Op, acc, lo, mid)
       IN IF left = left THEN ForLoop(Op, left, mid + 1, hi) ELSE acc

\* the same loop for an accumulator with a field stop: once an iteration
\* has set it (break, or the loop test failed) no later iteration runs
RECURSIVE ForLoopBreak(_, _, _, _)
ForLoopBreak(Op(_, _), acc, lo, hi) ==
  IF lo > hi \/ acc.stop THEN acc
  ELSE IF lo = hi THEN Op(acc, lo)
  ELSE LET mid == (lo + hi) \div 2
           left == ForLoopBreak(Op, acc, lo, mid)
       IN IF left.stop THEN left ELSE ForLoopBreak(Op, left, mid + 1, hi)

(***************************************************************************)
(* Exact rational arithmetic for float64 values: <<n, d>> with d > 0.      *)
(***************************************************************************)
RECURSIVE GCD(_, _)
GCD(a, b) == IF b = 0 THEN a ELSE GCD(b, a % b)

Rat(n, d) ==
  LET g == GCD(Abs(n), Abs(d))
      sg == IF d < 0 THEN -1 ELSE 1
  IN IF g = 0 THEN <<0, 1>> ELSE <<sg * (n \div g), sg * (d \div g)>>

RInt(n) == <<n, 1>>
RZero == <<0, 1>>
RAdd(x, y) ==
  LET g == GCD(x[2], y[2])
  IN Rat(x[1] * (y[2] \div g) + y[1] * (x[2] \div g), x[2] * (y[2] \div g))
RNeg(x) == <<-x[1], x[2]>>
RSub(x, y) == RAdd(x, RNeg(y))
RMul(x, y) ==
  LET a == Rat(x[1], y[2])
      b == Rat(y[1], x[2])
  IN <<a[1] * b[1], a[2] * b[2]>>
RDiv(x, y) == RMul(x, Rat(y[2], y[1]))
\* integer parts first, then the fractional parts over a common denominator
RLess(x, y) ==
  LET fx == x[1] \div x[2]
      fy == y[1] \div y[2]
      g == GCD(x[2], y[2])
  IN IF fx # fy THEN fx < fy
     ELSE (x[1] % x[2]) * (y[2] \div g) < (y[1] % y[2]) * (x[2] \div g)
RLeq(x, y) == ~RLess(y, x)
RMin(x, y) == IF RLess(y, x) THEN y ELSE x
RMax(x, y) == IF RLess(x, y) THEN y ELSE x
RAbs(x) == <<Abs(x[1]), x[2]>>
RPos(x) == x[1] > 0

(***************************************************************************)
(* RPC node: one fixed block per height, "latest" is the block at head.    *)
(***************************************************************************)
RpcBlock(h) ==
  IF h \in DOMAIN chainTs /\ h <= head
    THEN [number |-> h, timestamp |-> chainTs[h]]
    ELSE Null

\* a network response: the block the node holds, a result without header
\* fields, or a failed request (fetch rejects / response.ok is false)
RpcOutcomes == {"ok", "missing", "error"}

(***************************************************************************)
(* cryptoApi.ts  normalizeBlockParam / fetchBlockInfo                      *)
(***************************************************************************)
\* a block reference is null / undefined (Null), the tag "latest", a bigint
\* NumRef(h), a number NumberRef(n) or a string StrRef(<<characters>>)
LatestRef == [tag |-> "latest"]
NumRef(h) == [num |-> h]
NumberRef(n) == [number |-> n]
StrRef(chars) == [str |-> chars]
IsTag(ref) == "tag" \in DOMAIN ref
IsStr(ref) == "str" \in DOMAIN ref

\* canonical hex parameter "0x<h>" and the decimal alias number.toString()
HexKey(h) == [hex |-> h]
DecKey(h) == [dec |-> h]

\* the thrown Error of normalizeBlockParam / resolveBlockNumber
Throw(msg) == [throw |-> msg]
IsThrow(x) == "throw" \in DOMAIN x
SyntaxError == [syntaxError |-> TRUE]

\* characters: the sixteen lower-case hex digits and the upper-case letters
LowerHex == <<"0", "1", "2", "3", "4", "5", "6", "7", "8", "9",
              "a", "b", "c", "d", "e", "f">>
UpperAlpha == <<"A", "B", "C", "D", "E", "F", "X">>
LowerAlpha == <<"a", "b", "c", "d", "e", "f", "x">>

Lower(c) ==
  IF \E k \in 1..Len(UpperAlpha) : UpperAlpha[k] = c
    THEN LowerAlpha[CHOOSE k \in 1..Len(UpperAlpha) : UpperAlpha[k] = c]
    ELSE c
Upper(c) ==
  IF \E k \in 1..Len(LowerAlpha) : LowerAlpha[k] = c
    THEN UpperAlpha[CHOOSE k \in 1..Len(LowerAlpha) : LowerAlpha[k] = c]
    ELSE c
toLowerCase(chars) == [j \in 1..Len(chars) |-> Lower(chars[j])]
toUpperCase(chars) == [j \in 1..Len(chars) |-> Upper(chars[j])]

IsHexDigit(c) == \E k \in 1..16 : LowerHex[k] = Lower(c)
HexDigitValue(c) == (CHOOSE k \in 1..16 : LowerHex[k] = Lower(c)) - 1
IsDecDigit(c) == \E k \in 1..10 : LowerHex[k] = c
AllHex(chars) == \A j \in 1..Len(chars) : IsHexDigit(chars[j])
AllDec(chars) == \A j \in 1..Len(chars) : IsDecDigit(chars[j])

\* value of a digit string in a base
RECURSIVE DigitsValue(_, _)
DigitsValue(chars, base) ==
  IF chars = <<>> THEN 0
  ELSE base * DigitsValue(SubSeq(chars, 1, Len(chars) - 1), base)
         + HexDigitValue(chars[Len(chars)])

\* n.toString(base) for n >= 0
RECURSIVE toStringBase(_, _)
toStringBase(n, base) ==
  IF n < base THEN <<LowerHex[n + 1]>>
  ELSE toStringBase(n \div base, base) \o <<LowerHex[(n % base) + 1]>>

\* String.prototype.trim
trim(chars) ==
  LET keep == {j \in 1..Len(chars) : chars[j] # " "}
  IN IF keep = {} THEN <<>>
     ELSE SubSeq(chars, CHOOSE j \in keep : \A k \in keep : j <= k,
                        CHOOSE j \in keep : \A k \in keep : k <= j)

StartsWith0x(chars) == Len(chars) >= 2 /\ chars[1] = "0" /\ chars[2] = "x"

\* BigInt(string): white space is trimmed, the empty string is 0n, a 0x
\* prefix takes hex digits and no sign, else an optional sign and decimal
\* digits; anything else is a SyntaxError
TrimmedToBigInt(t) ==
  IF t = <<>> THEN [value |-> 0]
  ELSE IF Len(t) >= 2 /\ t[1] = "0" /\ Lower(t[2]) = "x"
    THEN LET rest == SubSeq(t, 3, Len(t))
         IN IF rest # <<>> /\ AllHex(rest)
              THEN [value |-> DigitsValue(rest, 16)] ELSE SyntaxError
  ELSE LET signed == t[1] \in {"-", "+"}
           body == IF signed THEN Tail(t) ELSE t
       IN IF body # <<>> /\ AllDec(body)
            THEN [value |-> IF t[1] = "-" THEN 0 - DigitsValue(body, 10)
                            ELSE DigitsValue(body, 10)]
            ELSE SyntaxError

StringToBigInt(chars) == TrimmedToBigInt(trim(chars))

\* line 74: lowered.replace(/^0x0*/, "") on a string that starts with 0x
StripHexPrefixKeepZeros(lowered) == SubSeq(lowered, 3, Len(lowered))

StripHexPrefix(lowered) ==
  LET rest == SubSeq(lowered, 3, Len(lowered))
      nonzero == {j \in 1..Len(rest) : rest[j] # "0"}
  IN IF nonzero = {} THEN <<>>
     ELSE SubSeq(rest, CHOOSE j \in nonzero : \A k \in nonzero : j <= k, Len(rest))

\* the string "0x" \o rest as a parameter: for hex digits without a leading
\* zero it is the canonical key of their value, otherwise it is kept as text
HexParam(rest) ==
  IF rest = <<>> THEN HexKey(0)
  ELSE IF AllHex(rest) /\ rest[1] # "0" THEN HexKey(DigitsValue(rest, 16))
  ELSE [raw |-> rest]

\* lines 77-83 and 87-90: the parameter of the parsed string
BigIntParam(asBigInt) ==
  IF asBigInt = SyntaxError THEN Throw("Invalid block identifier")
  ELSE IF asBigInt.value < 0 THEN Throw("Invalid block identifier")
  ELSE HexKey(asBigInt.value)

\* lines 69-83: the parameter of a string that is not blank
LoweredParam(block, lowered) ==
  IF StartsWith0x(lowered)
    THEN HexParam(StripHexPrefix(lowered))
    ELSE BigIntParam(StringToBigInt(block))

\* lines 55-91
normalizeBlockParam(block) ==
  IF block = Null THEN LatestRef
  ELSE IF IsTag(block) THEN block
  ELSE IF IsStr(block)
    THEN IF trim(block.str) = <<>> THEN LatestRef
         ELSE LoweredParam(block.str, toLowerCase(block.str))
  ELSE IF "number" \in DOMAIN block THEN HexKey(Max(0, block.number))
  ELSE IF block.num < 0 THEN Throw("Block number cannot be negative")
  ELSE HexKey(block.num)

\* the block the node answers a parameter with
ParamBlock(param) ==
  IF IsTag(param) THEN RpcBlock(head)
  ELSE IF "hex" \in DOMAIN param THEN RpcBlock(param.hex)
  ELSE Null

\* lines 117-144: the response to the request for param has arrived
\* the missing-block answer is stored under the requested key
CacheStoreMissing(cache, param, rpc) ==
  LET rb == ParamBlock(param)
  IN IF rpc = "error"
       THEN [status |-> "throw", info |-> Null, cache |-> cache, network |-> TRUE]
     ELSE IF rpc = "missing" \/ rb = Null
       THEN [status |-> "null", info |-> Null,
             cache |-> IF IsTag(param) THEN cache
                       ELSE [k \in DOMAIN cache \cup {param} |->
                               IF k = param THEN Null ELSE cache[k]],
             network |-> TRUE]
     ELSE LET info == [number |-> rb.number, timestampMs |-> rb.timestamp * 1000]
              add == {HexKey(rb.number), DecKey(rb.number)}
          IN [status |-> "ok", info |-> info,
              cache |-> [k \in DOMAIN cache \cup add |->
                           IF k \in add THEN info ELSE cache[k]],
              network |-> TRUE]

CacheStore(cache, param, rpc) ==
  LET rb == ParamBlock(param)
  IN IF rpc = "error"
       THEN [status |-> "throw", info |-> Null, cache |-> cache, network |-> TRUE]
     ELSE IF rpc = "missing" \/ rb = Null
       THEN [status |-> "null", info |-> Null, cache |-> cache, network |-> TRUE]
     ELSE LET info == [number |-> rb.number, timestampMs |-> rb.timestamp * 1000]
              add == {HexKey(rb.number), DecKey(rb.number)}
          IN [status |-> "ok", info |-> info,
              cache |-> [k \in DOMAIN cache \cup add |->
                           IF k \in add THEN info ELSE cache[k]],
              network |-> TRUE]

\* lines 94-102: the parameter and the cache lookup; status "throw", "hit" or
\* "miss" (a request for param is sent)
ParamLookup(cache, param) ==
  IF IsThrow(param)
    THEN [status |-> "throw", param |-> param, info |-> Null]
  ELSE IF ~IsTag(param) /\ param \in DOMAIN cache
    THEN [status |-> "hit", param |-> param, info |-> cache[param]]
  ELSE [status |-> "miss", param |-> param, info |-> Null]

CacheLookup(cache, block) == ParamLookup(cache, normalizeBlockParam(block))

\* result of one fetchBlockInfo call given the network response rpc:
\* status "ok" (info is a BlockInfo), "null" or "throw"; cache is the
\* block cache after the call; network tells whether a request was sent
FetchAfterLookup(cache, l, rpc) ==
  IF l.status = "throw"
    THEN [status |-> "throw", info |-> Null, cache |-> cache, network |-> FALSE]
  ELSE IF l.status = "hit"
    THEN [status |-> "ok", info |-> l.info, cache |-> cache, network |-> FALSE]
  ELSE CacheStore(cache, l.param, rpc)

fetchBlockInfo(cache, block, rpc) ==
  FetchAfterLookup(cache, CacheLookup(cache, block), rpc)

\* lines 152-185: status "ok" with the height, or "throw"
\* lines 153-157 and 169-175: the height of the latest block r fetched
ResolveLatest(r) ==
  IF r.status = "ok"
    THEN [status |-> "ok", number |-> r.info.number, cache |-> r.cache,
          network |-> r.network, error |-> Null]
    ELSE [status |-> "throw", number |-> Null, cache |-> r.cache,
          network |-> r.network,
          error |-> IF r.status = "throw"
                      THEN Throw("Failed to fetch block metadata")
                      ELSE Throw("Unable to resolve block")]

\* lines 158-166 and 176-184: the height v of a number, bigint or string
ResolveValue(cache, block, v) ==
  IF v = SyntaxError
    THEN [status |-> "throw", number |-> Null, cache |-> cache,
          network |-> FALSE, error |-> Throw("Invalid block identifier")]
  ELSE IF v.value < 0
    THEN [status |-> "throw", number |-> Null, cache |-> cache,
          network |-> FALSE,
          error |-> IF IsStr(block) THEN Throw("Invalid block identifier")
                    ELSE Throw("Block number cannot be negative")]
  ELSE [status |-> "ok", number |-> v.value, cache |-> cache,
        network |-> FALSE, error |-> Null]

resolveBlockNumber(cache, block, rpc) ==
  IF block = Null \/ IsTag(block)
    THEN ResolveLatest(fetchBlockInfo(cache, LatestRef, rpc))
  ELSE ResolveValue(cache, block,
         IF "num" \in DOMAIN block THEN [value |-> block.num]
         ELSE IF "number" \in DOMAIN block THEN [value |-> block.number]
         ELSE StringToBigInt(toLowerCase(trim(block.str))))

\* the responses the network may give to a call: failures are bounded
Responses == IF faultsLeft > 0 THEN RpcOutcomes ELSE {"ok"}
Faults(rpc, r) == IF r.network /\ rpc # "ok" THEN faultsLeft - 1 ELSE faultsLeft

(***************************************************************************)
(* Block locator: fetchBlockInfo calls that overlap (each is suspended at  *)
(* the await of line 104), and single calls of normalizeBlockParam and     *)
(* resolveBlockNumber.                                                     *)
(***************************************************************************)
LocIdle == [calls |-> <<>>, pure |-> Null, returned |-> {}]

LocChars == {"0", "1", "x", "z", "-", " "}
LocStrings == UNION {[1..n -> LocChars] : n \in 0..LocMaxLen}
LocHeights == {0, LocHead, LocHead + 1}

\* the forms a caller may give height h in
Aliases(h) ==
  {NumRef(h), NumberRef(h), StrRef(toStringBase(h, 10)),
   StrRef(<<"0", "x">> \o toStringBase(h, 16)),
   StrRef(<<"0", "X", "0">> \o toUpperCase(toStringBase(h, 16)))}
AliasRefs == UNION {Aliases(h) : h \in LocHeights} \cup {LatestRef, Null}
LocRefs ==
  AliasRefs \cup {NumRef(0 - 1), NumberRef(0 - 1)} \cup {StrRef(c) : c \in LocStrings}

\* the height a reference names, read off the reference; -1 for a tag, for
\* null and for a string that is no number
RefHeight(block) ==
  IF block = Null THEN 0 - 1
  ELSE IF "num" \in DOMAIN block THEN block.num
  ELSE IF "number" \in DOMAIN block THEN block.number
  ELSE IF IsStr(block)
    THEN LET v == StringToBigInt(block.str)
         IN IF v = SyntaxError THEN 0 - 1 ELSE v.value
  ELSE 0 - 1

\* the BlockInfo an earlier call returned for the height block names
Known(block) ==
  LET infos == {i \in loc.returned : i.number = RefHeight(block)}
  IN IF infos = {} THEN Null ELSE CHOOSE i \in infos : TRUE

\* lines 93-104: the call up to its return or to the await of the request
LocFetchStart(block) ==
  /\ loc.pure = Null
  /\ Len(loc.calls) < LocMaxCalls
  /\ loc.calls # <<>> => (block \in AliasRefs /\ loc.calls[1].block \in AliasRefs)
  /\ LET l == CacheLookup(blockCache, block)
         call == [block |-> block, param |-> l.param, known |-> Known(block),
                  pc |-> IF l.status = "miss" THEN "wait" ELSE "done",
                  status |-> IF l.status = "miss" THEN "pending"
                             ELSE IF l.status = "hit" THEN "ok" ELSE "throw",
                  info |-> l.info,
                  network |-> l.status = "miss"]
     IN loc' = [loc EXCEPT !.calls = Append(loc.calls, call),
                           !.returned = IF l.status = "hit"
                                          THEN loc.returned \cup {l.info}
                                          ELSE loc.returned]
  /\ UNCHANGED <<chain, usd, blockCache, lastQiToQuaiRate, faultsLeft, find, samp, pipe,
                 rs, stg>>

\* lines 117-144: the response of call c arrives
LocFetchFinish(c) ==
  /\ c \in 1..Len(loc.calls)
  /\ loc.calls[c].pc = "wait"
  /\ \E rpc \in Responses :
       LET r == CacheStore(blockCache, loc.calls[c].param, rpc)
       IN /\ blockCache' = r.cache
          /\ faultsLeft' = Faults(rpc, r)
          /\ loc' = [loc EXCEPT !.calls[c].pc = "done",
                                !.calls[c].status = r.status,
                                !.calls[c].info = r.info,
                                !.returned = IF r.status = "ok"
                                               THEN loc.returned \cup {r.info}
                                               ELSE loc.returned]
  /\ UNCHANGED <<chain, usd, lastQiToQuaiRate, find, samp, pipe, rs, stg>>

\* one call of normalizeBlockParam
LocNormalize(block) ==
  /\ loc.pure = Null
  /\ loc.calls = <<>>
  /\ loc' = [loc EXCEPT !.pure = [op |-> "normalize", block |-> block,
                                  out |-> normalizeBlockParam(block),
                                  network |-> FALSE]]
  /\ UNCHANGED <<chain, usd, blockCache, lastQiToQuaiRate, faultsLeft, find, samp, pipe,
                 rs, stg>>

\* one call of resolveBlockNumber
LocResolve(block) ==
  /\ loc.pure = Null
  /\ loc.calls = <<>>
  /\ \E rpc \in Responses :
       LET r == resolveBlockNumber(blockCache, block, rpc)
       IN /\ blockCache' = r.cache
          /\ faultsLeft' = IF r.network /\ rpc # "ok" THEN faultsLeft - 1
                           ELSE faultsLeft
          /\ loc' = [loc EXCEPT !.pure = [op |-> "resolve", block |-> block,
                                          out |-> IF r.status = "ok"
                                                    THEN [number |-> r.number]
                                                    ELSE r.error,
                                          network |-> r.network]]
  /\ UNCHANGED <<chain, usd, lastQiToQuaiRate, find, samp, pipe, rs, stg>>

\* a series stage not yet applied
StgIdle == [pc |-> "idle", op |-> "none", range |-> "1h", points |-> <<>>, out |-> <<>>]
StgCall(op, range, points) ==
  [pc |-> "in", op |-> op, range |-> range, points |-> points, out |-> <<>>]

(***************************************************************************)
(* qiHistoryServer.ts  findBlockAtOrBeforeTimestamp                        *)
(* One action per await: the fetch and the synchronous code up to the next *)
(* await or return.                                                        *)
(***************************************************************************)
FindIdle ==
  [pc |-> "idle", targetMs |-> 0, latest |-> Null, highInfo |-> Null,
   lowInfo |-> Null, step |-> 1, lowNum |-> 0, highNum |-> 0, ret |-> Null,
   probes |-> <<>>]

\* the call findBlockAtOrBeforeTimestamp(targetMs), before its first await
FindCall(targetMs) == [FindIdle EXCEPT !.pc = "latest", !.targetMs = targetMs]

FindReturn(f, info) == [f EXCEPT !.pc = "done", !.ret = info]
FindRaise(f) == [f EXCEPT !.pc = "raised"]
\* log of the fetchBlockInfo calls of the search, in call order
Probe(f, block, r) ==
  [f EXCEPT !.probes = Append(@, [phase |-> f.pc, block |-> block,
                                   status |-> r.status, network |-> r.network])]

\* the loop stops one step early
FindBisectNextEarly(f) ==
  IF f.highNum - f.lowNum > 2
    THEN [f EXCEPT !.pc = "bisect"]
    ELSE IF f.highInfo.timestampMs <= f.targetMs
           THEN [f EXCEPT !.pc = "done", !.ret = f.highInfo]
           ELSE [f EXCEPT !.pc = "done", !.ret = f.lowInfo]

\* the high bound is returned without the test of line 109
FindBisectNextHigh(f) ==
  IF f.highNum - f.lowNum > 1
    THEN [f EXCEPT !.pc = "bisect"]
    ELSE [f EXCEPT !.pc = "done", !.ret = f.highInfo]

\* lines 92 and 109-113: the bisection loop test and the final choice
FindBisectNext(f) ==
  IF f.highNum - f.lowNum > 1
    THEN [f EXCEPT !.pc = "bisect"]
    ELSE IF f.highInfo.timestampMs <= f.targetMs
           THEN FindReturn(f, f.highInfo)
           ELSE FindReturn(f, f.lowInfo)

\* lines 85-90: after the back-off loop
FindAfterBackoff(f) ==
  IF f.lowInfo = Null
    THEN FindReturn(f, f.highInfo)
    ELSE FindBisectNext([f EXCEPT !.lowNum = f.lowInfo.number,
                                  !.highNum = f.highInfo.number])

\* lines 53-62
FindLatest ==
  /\ find.pc = "latest"
  /\ \E rpc \in Responses :
       LET r == fetchBlockInfo(blockCache, LatestRef, rpc)
           f == Probe(find, LatestRef, r)
       IN /\ blockCache' = r.cache
          /\ faultsLeft' = Faults(rpc, r)
          /\ find' = IF r.status = "throw" THEN FindRaise(f)
                     ELSE IF r.status = "null" THEN FindReturn(f, Null)
                     ELSE IF f.targetMs >= r.info.timestampMs
                       THEN FindReturn([f EXCEPT !.latest = r.info], r.info)
                     ELSE [f EXCEPT !.pc = "backoff", !.latest = r.info,
                                    !.highInfo = r.info, !.lowInfo = Null,
                                    !.step = 1]
  /\ UNCHANGED <<chain, usd, loc, stg, lastQiToQuaiRate, samp, pipe, rs>>

\* the step is subtracted without the test against the high bound
CandidateNumberUnclamped(highInfo, step) == highInfo.number - step

\* line 70
CandidateNumber(highInfo, step) ==
  IF highInfo.number > step THEN highInfo.number - step ELSE 0

\* lines 64-83: one iteration of the back-off loop
FindBackoff ==
  /\ find.pc = "backoff"
  /\ IF find.highInfo.number = 0
       THEN /\ find' = FindAfterBackoff([find EXCEPT !.lowInfo = find.highInfo])
            /\ UNCHANGED <<blockCache, faultsLeft>>
       ELSE \E rpc \in Responses :
         LET candidateNumber == CandidateNumber(find.highInfo, find.step)
             r == fetchBlockInfo(blockCache, NumRef(candidateNumber), rpc)
             f == Probe(find, NumRef(candidateNumber), r)
         IN /\ blockCache' = r.cache
            /\ faultsLeft' = Faults(rpc, r)
            /\ find' =
                 IF r.status = "throw" THEN FindRaise(f)
                 ELSE IF r.status = "null" THEN FindAfterBackoff(f)
                 ELSE IF r.info.timestampMs <= f.targetMs \/ candidateNumber = 0
                   THEN FindAfterBackoff([f EXCEPT !.lowInfo = r.info])
                 ELSE [f EXCEPT !.highInfo = r.info, !.step = 2 * f.step]
  /\ UNCHANGED <<chain, usd, loc, stg, lastQiToQuaiRate, samp, pipe, rs>>

\* the halving is left out
MidNumberHigh(lowNum, highNum) == lowNum + (highNum - lowNum)

\* line 93
MidNumber(lowNum, highNum) == lowNum + (highNum - lowNum) \div 2

\* lines 92-107: one iteration of the bisection loop
FindBisect ==
  /\ find.pc = "bisect"
  /\ \E rpc \in Responses :
       LET midNum == MidNumber(find.lowNum, find.highNum)
           r == fetchBlockInfo(blockCache, NumRef(midNum), rpc)
           f == Probe(find, NumRef(midNum), r)
       IN /\ blockCache' = r.cache
          /\ faultsLeft' = Faults(rpc, r)
          /\ find' =
               IF r.status = "throw" THEN FindRaise(f)
               ELSE IF r.status = "null"
                 THEN FindBisectNext([f EXCEPT !.highNum = midNum])
               ELSE IF r.info.timestampMs <= f.targetMs
                 THEN FindBisectNext([f EXCEPT !.lowInfo = r.info, !.lowNum = midNum])
               ELSE FindBisectNext([f EXCEPT !.highInfo = r.info, !.highNum = midNum])
  /\ UNCHANGED <<chain, usd, loc, stg, lastQiToQuaiRate, samp, pipe, rs>>

(***************************************************************************)
(* qiHistoryServer.ts  per-range configuration (lines 7-42, 139-144)       *)
(***************************************************************************)
Ranges == {"1h", "24h", "7d", "30d", "6m"}

\* durationMs is kept in seconds (durationMs = durationSec * 1000): the
\* millisecond value of "30d" and "6m" exceeds the checker's integers
QI_HISTORY_RANGE_CONFIG ==
  [r \in Ranges |->
     CASE r = "1h"  -> [durationSec |-> 60 * 60, samples |-> 240]
       [] r = "24h" -> [durationSec |-> 24 * 60 * 60, samples |-> 288]
       [] r = "7d"  -> [durationSec |-> 7 * 24 * 60 * 60, samples |-> 336]
       [] r = "30d" -> [durationSec |-> 30 * 24 * 60 * 60, samples |-> 180]
       [] r = "6m"  -> [durationSec |-> 182 * 24 * 60 * 60, samples |-> 186]]

RANGE_BUCKET_MS ==
  [r \in Ranges |->
     CASE r = "1h"  -> 30 * 1000
       [] r = "24h" -> 60 * 1000
       [] r = "7d"  -> 10 * 60 * 1000
       [] r = "30d" -> 6 * 60 * 60 * 1000
       [] r = "6m"  -> 24 * 60 * 60 * 1000]

\* Partial<Record<..>>: a range without an entry is outside the DOMAIN
RANGE_SMOOTHING_WINDOW ==
  [r \in {"1h", "24h", "7d", "30d"} |->
     CASE r = "1h" -> 5 [] r = "24h" -> 9 [] r = "7d" -> 17 [] r = "30d" -> 9]

RANGE_SMOOTHING_ALPHA ==
  [r \in {"1h", "24h", "7d", "30d"} |->
     CASE r = "1h"  -> Rat(35, 100)
       [] r = "24h" -> Rat(2, 10)
       [] r = "7d"  -> Rat(14, 100)
       [] r = "30d" -> Rat(12, 100)]

RANGE_DENSIFY_SEGMENTS ==
  [r \in {"1h", "24h", "7d", "30d"} |->
     CASE r = "1h" -> 4 [] r = "24h" -> 8 [] r = "7d" -> 6 [] r = "30d" -> 2]

RangeConcurrency(range) ==
  CASE range = "1h" -> 32 [] range = "24h" -> 28 [] range = "7d" -> 20
    [] range = "30d" -> 16 [] OTHER -> 12

normalizeSamples(required) == Max(2, Min(required, 500))

(***************************************************************************)
(* qiHistoryServer.ts lines 152-171: snapshots -> price points             *)
(***************************************************************************)
\* a rate string is RateHex(<hex digits>) or, when the RPC answer carries
\* no result field, Undefined
RateHex(digits) == [hex |-> digits]
Undefined == [undefined |-> TRUE]

RECURSIVE HexValue(_)
HexValue(digits) ==
  IF digits = <<>> THEN 0
  ELSE 16 * HexValue(SubSeq(digits, 1, Len(digits) - 1)) + digits[Len(digits)]

\* Number.parseInt(rate, 16): NaN for undefined and for a string without
\* a leading hex digit, else the number [value |-> n]
parseInt16(rate) ==
  IF rate = Undefined THEN NaN
  ELSE IF rate.hex = <<>> THEN NaN
  ELSE [value |-> HexValue(rate.hex)]

isFinite(x) == x # NaN

\* the test of line 156 is left out
ConvertStepNoSeen(acc, snapshot, quaiUsdPrice) ==
  LET rateNum == parseInt16(snapshot.rate)
  IN IF ~isFinite(rateNum) THEN acc
     ELSE IF ~RPos(RInt(rateNum.value)) THEN acc
     ELSE [seen |-> acc.seen,
           points |-> Append(acc.points,
             [timestamp |-> snapshot.timestamp,
              price |-> RMul(RInt(rateNum.value), quaiUsdPrice),
              blockNumberHex |-> snapshot.blockNumberHex])]

\* one iteration of the loop of lines 155-169 on accumulator
\* acc = [seen |-> set of timestamps, points |-> sequence]
ConvertStep(acc, snapshot, quaiUsdPrice) ==
  IF snapshot.timestamp \in acc.seen THEN acc
  ELSE LET seen == acc.seen \cup {snapshot.timestamp}
           rateNum == parseInt16(snapshot.rate)
       IN IF ~isFinite(rateNum) THEN [acc EXCEPT !.seen = seen]
          ELSE LET rateDecimal == RInt(rateNum.value)  \* rateNum / 1e18 in units of 1e-18
               IN IF ~RPos(rateDecimal) THEN [acc EXCEPT !.seen = seen]
                  ELSE [seen |-> seen,
                        points |-> Append(acc.points,
                          [timestamp |-> snapshot.timestamp,
                           price |-> RMul(rateDecimal, quaiUsdPrice),
                           blockNumberHex |-> snapshot.blockNumberHex])]

\* Array.prototype.sort with (a, b) => a.timestamp - b.timestamp is stable:
\* a point goes behind every point whose timestamp is <= its own
SortInsert(sorted, p) ==
  LET pos == Cardinality({j \in 1..Len(sorted) : sorted[j].timestamp <= p.timestamp})
  IN SubSeq(sorted, 1, pos) \o <<p>> \o SubSeq(sorted, pos + 1, Len(sorted))

SortByTimestampUnsorted(points) == points

SortByTimestamp(points) ==
  ForLoop(LAMBDA sorted, k : SortInsert(sorted, points[k]), <<>>, 1, Len(points))

ConvertSnapshots(snapshots, quaiUsdPrice) ==
  SortByTimestamp(
    ForLoop(LAMBDA acc, k : ConvertStep(acc, snapshots[k], quaiUsdPrice),
            [seen |-> {}, points |-> <<>>], 1, Len(snapshots)).points)

\* part_003 lines 332-347: one iteration of the loop of the earlier
\* revision's convertSnapshotsToPricePoints
ConvertStepRev(acc, snapshot, quaiUsdPrice) ==
  IF snapshot.timestamp \in acc.seen THEN acc
  ELSE LET seen == acc.seen \cup {snapshot.timestamp}
           rateNum == parseInt16(snapshot.rate)
       IN IF ~isFinite(rateNum) THEN [acc EXCEPT !.seen = seen]
          ELSE IF rateNum.value <= 0 THEN [acc EXCEPT !.seen = seen]
          ELSE LET rateDecimal == RInt(rateNum.value)
               IN IF RLeq(rateDecimal, RZero) THEN [acc EXCEPT !.seen = seen]
                  ELSE [seen |-> seen,
                        points |-> Append(acc.points,
                          [timestamp |-> snapshot.timestamp,
                           price |-> RMul(rateDecimal, quaiUsdPrice),
                           blockNumberHex |-> snapshot.blockNumberHex])]

\* part_003 lines 325-350
convertSnapshotsToPricePoints(snapshots, quaiUsdPrice) ==
  SortByTimestamp(
    ForLoop(LAMBDA acc, k : ConvertStepRev(acc, snapshots[k], quaiUsdPrice),
            [seen |-> {}, points |-> <<>>], 1, Len(snapshots)).points)

(***************************************************************************)
(* qiHistoryServer.ts lines 173-205: bucketing (mean price, last sample's  *)
(* timestamp and block)                                                    *)
(***************************************************************************)
flushBucket(bucketed, currentBucket) ==
  IF currentBucket = Null THEN bucketed
  ELSE IF currentBucket.count = 0 THEN bucketed
  ELSE Append(bucketed,
         [timestamp |-> currentBucket.lastTimestamp,
          price |-> RDiv(currentBucket.sum, RInt(currentBucket.count)),
          blockNumberHex |-> currentBucket.lastBlock])

\* every point opens a bucket of its own
BucketStepNoMerge(acc, point, bucketSize) ==
  [bucketed |-> flushBucket(acc.bucketed, acc.currentBucket),
   currentBucket |-> [key |-> (point.timestamp \div bucketSize) * bucketSize,
                      sum |-> point.price, count |-> 1,
                      lastTimestamp |-> point.timestamp,
                      lastBlock |-> point.blockNumberHex]]

\* one iteration of the loop of lines 187-204 on
\* acc = [bucketed |-> sequence, currentBucket |-> bucket or Null]
BucketStep(acc, point, bucketSize) ==
  LET bucketKey == (point.timestamp \div bucketSize) * bucketSize
      cb == acc.currentBucket
      sameKey == IF cb = Null THEN FALSE ELSE bucketKey = cb.key
  IN IF ~sameKey
       THEN [bucketed |-> flushBucket(acc.bucketed, cb),
             currentBucket |-> [key |-> bucketKey, sum |-> point.price,
                                count |-> 1, lastTimestamp |-> point.timestamp,
                                lastBlock |-> point.blockNumberHex]]
       ELSE [bucketed |-> acc.bucketed,
             currentBucket |-> [key |-> cb.key, sum |-> RAdd(cb.sum, point.price),
                                count |-> cb.count + 1,
                                lastTimestamp |-> point.timestamp,
                                lastBlock |-> point.blockNumberHex]]

BucketPoints(range, points) ==
  LET acc == ForLoop(LAMBDA a, k : BucketStep(a, points[k], RANGE_BUCKET_MS[range]),
                     [bucketed |-> <<>>, currentBucket |-> Null], 1, Len(points))
  IN flushBucket(acc.bucketed, acc.currentBucket)

(***************************************************************************)
(* part_003 lines 355-413: bucketPoints of the earlier revision (median    *)
(* price, median timestamp, last sample's block)                           *)
(***************************************************************************)
RANGE_BUCKET_MS_REV ==
  [range \in Ranges |->
     CASE range = "1h" -> 15000
       [] range = "24h" -> 90000
       [] range = "7d" -> 600000
       [] range = "30d" -> 3600000
       [] range = "6m" -> 14400000]

\* slice().sort((a, b) => a - b) on numbers and on prices
SortNumbers(seq) ==
  ForLoop(LAMBDA sorted, k :
            LET pos == Cardinality({j \in 1..Len(sorted) : sorted[j] <= seq[k]})
            IN SubSeq(sorted, 1, pos) \o <<seq[k]>> \o SubSeq(sorted, pos + 1, Len(sorted)),
          <<>>, 1, Len(seq))
SortPrices(seq) ==
  ForLoop(LAMBDA sorted, k :
            LET pos == Cardinality({j \in 1..Len(sorted) : RLeq(sorted[j], seq[k])})
            IN SubSeq(sorted, 1, pos) \o <<seq[k]>> \o SubSeq(sorted, pos + 1, Len(sorted)),
          <<>>, 1, Len(seq))

\* Math.round of (a + b) / 2 for timestamps a, b >= 0
RoundHalf(a, b) == (a + b + 1) \div 2

\* lines 369-391
flushBucketRev(bucketed, currentBucket) ==
  IF currentBucket = Null THEN bucketed
  ELSE IF Len(currentBucket.prices) = 0 THEN bucketed
  ELSE LET sortedPrices == SortPrices(currentBucket.prices)
           sortedTimes == SortNumbers(currentBucket.timestamps)
           n == Len(sortedPrices)
           midIdx == n \div 2
           medianPrice == IF n % 2 = 0
                            THEN RDiv(RAdd(sortedPrices[midIdx], sortedPrices[midIdx + 1]),
                                      RInt(2))
                            ELSE sortedPrices[midIdx + 1]
           medianTime == IF n % 2 = 0
                           THEN RoundHalf(sortedTimes[midIdx], sortedTimes[midIdx + 1])
                           ELSE sortedTimes[midIdx + 1]
       IN Append(bucketed,
            [timestamp |-> medianTime,
             price |-> medianPrice,
             blockNumberHex |-> currentBucket.blocks[Len(currentBucket.blocks)]])

\* lines 393-409: one iteration
BucketStepRev(acc, point, bucketSize) ==
  LET bucketKey == (point.timestamp \div bucketSize) * bucketSize
      cb == acc.currentBucket
      sameKey == IF cb = Null THEN FALSE ELSE bucketKey = cb.key
  IN IF ~sameKey
       THEN [bucketed |-> flushBucketRev(acc.bucketed, cb),
             currentBucket |-> [key |-> bucketKey, prices |-> <<point.price>>,
                                timestamps |-> <<point.timestamp>>,
                                blocks |-> <<point.blockNumberHex>>]]
       ELSE [bucketed |-> acc.bucketed,
             currentBucket |-> [key |-> cb.key,
                                prices |-> Append(cb.prices, point.price),
                                timestamps |-> Append(cb.timestamps, point.timestamp),
                                blocks |-> Append(cb.blocks, point.blockNumberHex)]]

bucketPoints(points, bucketSize) ==
  IF Len(points) = 0 THEN <<>>
  ELSE LET acc == ForLoop(LAMBDA a, k : BucketStepRev(a, points[k], bucketSize),
                          [bucketed |-> <<>>, currentBucket |-> Null], 1, Len(points))
       IN flushBucketRev(acc.bucketed, acc.currentBucket)

(***************************************************************************)
(* qiHistoryServer.ts lines 241-284: smoothPoints                          *)
(***************************************************************************)
SumPrices(points, lo, hi) ==
  ForLoop(LAMBDA sum, j : RAdd(sum, points[j].price), RZero, lo, hi)

\* only the points that have a full window are averaged and kept
MovingAverageInner(points, halfWindow) ==
  [i \in 1..Max(0, Len(points) - 2 * halfWindow) |->
     [timestamp |-> points[i + halfWindow].timestamp,
      price |-> RDiv(SumPrices(points, i, i + 2 * halfWindow),
                     RInt(2 * halfWindow + 1)),
      blockNumberHex |-> points[i + halfWindow].blockNumberHex]]

\* lines 250-263, with 1-based index i
MovingAverage(points, halfWindow) ==
  [i \in 1..Len(points) |->
     LET lo == Max(1, i - halfWindow)
         hi == Min(Len(points), i + halfWindow)
         count == hi - lo + 1
     IN [timestamp |-> points[i].timestamp,
         price |-> RDiv(SumPrices(points, lo, hi), RInt(Max(1, count))),
         blockNumberHex |-> points[i].blockNumberHex]]

\* lines 270-281: one iteration on acc = [out |-> sequence, prev |-> price]
ExpSmoothStep(acc, point, alpha) ==
  LET smoothedPrice == RAdd(RMul(alpha, point.price),
                            RMul(RSub(RInt(1), alpha), acc.prev))
  IN [out |-> Append(acc.out, [timestamp |-> point.timestamp,
                                price |-> smoothedPrice,
                                blockNumberHex |-> point.blockNumberHex]),
      prev |-> smoothedPrice]

ExpSmooth(movingAveraged, alpha) ==
  ForLoop(LAMBDA acc, k : ExpSmoothStep(acc, movingAveraged[k], alpha),
          [out |-> <<>>, prev |-> movingAveraged[1].price],
          1, Len(movingAveraged)).out

smoothPoints(range, points) ==
  LET hasWindow == range \in DOMAIN RANGE_SMOOTHING_WINDOW
      windowSize == RANGE_SMOOTHING_WINDOW[range]
      skip == IF ~hasWindow THEN TRUE
              ELSE windowSize <= 1 \/ Len(points) <= windowSize
  IN IF skip THEN points
     ELSE LET movingAveraged == MovingAverage(points, windowSize \div 2)
              alpha == RANGE_SMOOTHING_ALPHA[range]
              noAlpha == IF range \notin DOMAIN RANGE_SMOOTHING_ALPHA THEN TRUE
                         ELSE ~RPos(alpha) \/ RLeq(RInt(1), alpha)
          IN IF noAlpha THEN movingAveraged
             ELSE ExpSmooth(movingAveraged, alpha)

(***************************************************************************)
(* part_003 lines 418-464: removeExtremeOutliers of the earlier revision   *)
(***************************************************************************)
OUTLIER_THRESHOLD ==
  [range \in Ranges |->
     CASE range = "1h" -> Rat(20, 100)
       [] range = "24h" -> Rat(25, 100)
       [] range = "7d" -> Rat(35, 100)
       [] range = "30d" -> Rat(50, 100)
       [] range = "6m" -> Rat(70, 100)]

\* the 1e-9 floor of lines 444 and 449
NEIGHBOR_FLOOR == Rat(1, 1000000000)

\* lines 428-460: the point pushed for index i (1-based)
OutlierStep(points, i, threshold) ==
  LET current == points[i]
      prev == points[Max(1, i - 1)]
      next == points[Min(Len(points), i + 1)]
      neighborAvg == RDiv(RAdd(prev.price, next.price), RInt(2))
      neighborMax == RMax(prev.price, next.price)
      neighborMin == RMin(prev.price, next.price)
      neighborSpread == RSub(neighborMax, neighborMin)
      deviation == RAbs(RSub(current.price, neighborAvg))
      floor == RMax(NEIGHBOR_FLOOR, neighborAvg)
      relativeDeviation == RDiv(deviation, floor)
      isStableNeighborhood == RLess(RDiv(neighborSpread, floor),
                                    RDiv(threshold, RInt(2)))
      isExtremeDeviation == RLess(threshold, relativeDeviation)
  IN IF isExtremeDeviation /\ isStableNeighborhood /\ i # 1 /\ i # Len(points)
       THEN [current EXCEPT !.price = neighborAvg]
       ELSE current

\* each index is decided on the series as replaced so far
removeExtremeOutliersCascade(range, points) ==
  IF Len(points) < 3 THEN points
  ELSE ForLoop(LAMBDA acc, i :
                 [acc EXCEPT ![i] = OutlierStep(acc, i, OUTLIER_THRESHOLD[range])],
               points, 1, Len(points))

removeExtremeOutliers(range, points) ==
  IF Len(points) < 3 THEN points
  ELSE [i \in 1..Len(points) |-> OutlierStep(points, i, OUTLIER_THRESHOLD[range])]

(***************************************************************************)
(* qiHistoryServer.ts lines 209-220 and 226-237: the resample step         *)
(* (fixed-stride decimation that re-appends the final point)               *)
(***************************************************************************)
CeilDiv(a, b) == (a + b - 1) \div b

\* the loop of lines 212-214: indices 0, stride, 2*stride, ... (1-based here)
StridePick(points, stride) ==
  [j \in 1..CeilDiv(Len(points), stride) |-> points[(j - 1) * stride + 1]]

\* the series is never reduced
ResampleKeepAll(points, targetCount) == points

\* the final point is not re-appended
ResampleNoAppend(points, targetCount) ==
  IF Len(points) > targetCount
    THEN StridePick(points, CeilDiv(Len(points), targetCount))
    ELSE points

Resample(points, targetCount) ==
  IF Len(points) > targetCount
    THEN LET stride == CeilDiv(Len(points), targetCount)
             reduced == StridePick(points, stride)
             lastPoint == points[Len(points)]
             push == IF Len(reduced) = 0 THEN TRUE
                     ELSE reduced[Len(reduced)].timestamp # lastPoint.timestamp
         IN IF push THEN Append(reduced, lastPoint) ELSE reduced
    ELSE points

(***************************************************************************)
(* qiHistoryServer.ts lines 286-368: clamp, catmullRom, densifyPoints      *)
(***************************************************************************)
\* the value is passed through
clampOff(value, min, max) == value

\* rational values are always finite, so the branch of line 287 is not taken
clamp(value, min, max) ==
  IF RLess(value, min) THEN min
  ELSE IF RLess(max, value) THEN max
  ELSE value

catmullRom(y0, y1, y2, y3, t) ==
  LET t2 == RMul(t, t)
      t3 == RMul(t2, t)
      c1 == RSub(y2, y0)
      c2 == RSub(RAdd(RSub(RMul(RInt(2), y0), RMul(RInt(5), y1)),
                      RMul(RInt(4), y2)), y3)
      c3 == RAdd(RSub(RSub(RMul(RInt(3), y1), y0), RMul(RInt(3), y2)), y3)
  IN RMul(Rat(1, 2),
          RAdd(RAdd(RAdd(RMul(RInt(2), y1), RMul(c1, t)), RMul(c2, t2)),
               RMul(c3, t3)))

\* Math.round(deltaTime * (s / segments)) for deltaTime > 0 (round half up),
\* with the whole multiples of segments taken out of deltaTime first
RoundRatio(deltaTime, s, segments) ==
  (deltaTime \div segments) * s
    + (2 * (deltaTime % segments) * s + segments) \div (2 * segments)

NEGATIVE_INFINITY == -1   \* below every timestamp: timestamps are >= 0

\* 1e-12 and 1e-3 in the price unit of 1e-18
EPS_ABS == Rat(1000000, 1)
EPS_REL == Rat(1, 1000)

\* lines 339-360: the inner loop from segment s on
\* acc = [result |-> sequence, lastTimestamp |-> number]
RECURSIVE DensifySegments(_, _, _, _, _)
DensifySegments(acc, q, s, segments, guard) ==
  IF s >= segments THEN acc
  ELSE LET timestamp == q.current.timestamp + RoundRatio(q.deltaTime, s, segments)
       IN IF timestamp <= acc.lastTimestamp
            THEN DensifySegments(acc, q, s + 1, segments, guard)
            ELSE LET interpolatedPrice ==
                       catmullRom(q.prev.price, q.current.price, q.next.price,
                                  q.nextNext.price, Rat(s, segments))
                     point == [timestamp |-> timestamp,
                               price |-> clamp(interpolatedPrice,
                                               RMin(guard.min, guard.max),
                                               RMax(guard.min, guard.max)),
                               blockNumberHex |-> q.current.blockNumberHex]
                 IN DensifySegments([result |-> Append(acc.result, point),
                                     lastTimestamp |-> timestamp],
                                    q, s + 1, segments, guard)

\* the real point is pushed whatever was emitted before it
DensifyStepPushAll(acc, points, i, segments) ==
  LET current == points[i]
      next == points[i + 1]
      acc1 == [result |-> Append(acc.result, current),
               lastTimestamp |-> current.timestamp]
      deltaTime == next.timestamp - current.timestamp
  IN IF deltaTime <= 0 THEN acc1
     ELSE DensifySegments(acc1,
            [prev |-> current, current |-> current, next |-> next,
             nextNext |-> next, deltaTime |-> deltaTime],
            1, segments,
            [min |-> RMin(current.price, next.price),
             max |-> RMax(current.price, next.price)])

\* lines 315-361: the body of the outer loop for 1-based index i
DensifyStep(acc, points, i, segments) ==
  LET prev == IF i > 1 THEN points[i - 1] ELSE points[i]
      current == points[i]
      next == points[i + 1]
      nextNext == IF i + 2 <= Len(points) THEN points[i + 2] ELSE next
      acc1 == IF current.timestamp > acc.lastTimestamp
                THEN [result |-> Append(acc.result, current),
                      lastTimestamp |-> current.timestamp]
                ELSE acc
      deltaTime == next.timestamp - current.timestamp
  IN IF deltaTime <= 0 THEN acc1
     ELSE LET localMin == RMin(current.price, next.price)
              localMax == RMax(current.price, next.price)
              diff == RSub(localMax, localMin)
              localRange ==
                IF diff # RZero THEN diff
                ELSE RMax(EPS_ABS,
                          RMul(RMax(RAbs(current.price), RAbs(next.price)), EPS_REL))
              guardMin == RSub(localMin, RMul(localRange, Rat(35, 100)))
              guardMax == RAdd(localMax, RMul(localRange, Rat(35, 100)))
          IN DensifySegments(acc1,
               [prev |-> prev, current |-> current, next |-> next,
                nextNext |-> nextNext, deltaTime |-> deltaTime],
               1, segments, [min |-> guardMin, max |-> guardMax])

densifyPoints(range, points) ==
  LET skip == IF range \notin DOMAIN RANGE_DENSIFY_SEGMENTS THEN TRUE
              ELSE RANGE_DENSIFY_SEGMENTS[range] <= 1 \/ Len(points) < 2
  IN IF skip THEN points
     ELSE LET segments == RANGE_DENSIFY_SEGMENTS[range]
              acc == ForLoop(LAMBDA a, i : DensifyStep(a, points, i, segments),
                             [result |-> <<>>, lastTimestamp |-> NEGATIVE_INFINITY],
                             1, Len(points) - 1)
              result == acc.result
              lastPoint == points[Len(points)]
              push == IF Len(result) = 0 THEN TRUE
                      ELSE result[Len(result)].timestamp < lastPoint.timestamp
          IN IF push THEN Append(result, lastPoint) ELSE result

(***************************************************************************)
(* part_004 lines 35-39 and 282-310: densifyPoints of the earlier          *)
(* revision, linear interpolation                                          *)
(***************************************************************************)
RANGE_DENSIFY_SEGMENTS_REV ==
  [r \in {"1h", "24h", "7d"} |->
     CASE r = "1h" -> 4 [] r = "24h" -> 4 [] r = "7d" -> 2]

\* lines 297-304: the interpolated point of segment s
DensifyPointRev(current, next, s, segments) ==
  LET deltaTime == next.timestamp - current.timestamp
      deltaPrice == RSub(next.price, current.price)
  IN [timestamp |-> current.timestamp + RoundRatio(deltaTime, s, segments),
      price |-> RAdd(current.price, RMul(deltaPrice, Rat(s, segments))),
      blockNumberHex |-> current.blockNumberHex]

\* lines 290-305: the body of the outer loop for 1-based index i
DensifyStepRev(result, points, i, segments) ==
  Append(result, points[i])
    \o [s \in 1..(segments - 1) |->
         DensifyPointRev(points[i], points[i + 1], s, segments)]

densifyPointsRev(range, points) ==
  LET skip == IF range \notin DOMAIN RANGE_DENSIFY_SEGMENTS_REV THEN TRUE
              ELSE RANGE_DENSIFY_SEGMENTS_REV[range] <= 1 \/ Len(points) < 2
  IN IF skip THEN points
     ELSE Append(ForLoop(LAMBDA r, i : DensifyStepRev(r, points, i,
                                         RANGE_DENSIFY_SEGMENTS_REV[range]),
                         <<>>, 1, Len(points) - 1),
                 points[Len(points)])

(***************************************************************************)
(* qiHistoryServer.ts lines 152-239: from the snapshots to the returned    *)
(* series (synchronous, no await)                                          *)
(***************************************************************************)
DensifyFactor(range) ==
  IF range \in DOMAIN RANGE_DENSIFY_SEGMENTS THEN RANGE_DENSIFY_SEGMENTS[range] ELSE 1

ProcessSnapshots(range, snapshots, quaiUsdPrice) ==
  LET samples == normalizeSamples(QI_HISTORY_RANGE_CONFIG[range].samples)
      points == ConvertSnapshots(snapshots, quaiUsdPrice)
      bucketed == BucketPoints(range, points)
      smoothed == smoothPoints(range, bucketed)
      reduced == Resample(smoothed, samples)
      densified == densifyPoints(range, reduced)
  IN Resample(densified, samples * DensifyFactor(range))

(***************************************************************************)
(* cryptoApi.ts lines 439-472: fetchQiToQuai for a numbered block.         *)
(* The fallback lastQiToQuaiRate is written only for "latest"/"pending".   *)
(***************************************************************************)
fetchQiToQuai(h, rpc) ==
  IF rpc = "error"
    THEN IF lastQiToQuaiRate = Null THEN RateHex(<<0>>) ELSE lastQiToQuaiRate
  ELSE IF rpc = "missing" \/ h \notin DOMAIN chainRate THEN Undefined
  ELSE chainRate[h]

(***************************************************************************)
(* cryptoApi.ts lines 258-321: fetchQiToQuaiSnapshots                      *)
(***************************************************************************)
\* a number that is NaN or an infinity
NonFinite == [nonfinite |-> TRUE]

\* lines 190, 195 and 201-202: zero becomes one, a negative value its negation
StepOfBigInt(value) == IF value = 0 THEN 1 ELSE IF value > 0 THEN value ELSE -value

\* the stride is taken as it is given, sign included
StepOfParsedSigned(v) == IF v = SyntaxError THEN 1 ELSE v.value

\* lines 197-205: the stride of the parsed string, 1 if it does not parse
StepOfParsed(v) == IF v = SyntaxError THEN 1 ELSE StepOfBigInt(v.value)

\* lines 187-207; step is Undefined, a bigint NumRef(n), a number
\* NumberRef(n) or NonFinite, or a string StrRef(chars); the numbers given
\* are whole, so Math.floor leaves Math.abs(step) as it is
toStepBigInt(step) ==
  IF step = Undefined THEN 1
  ELSE IF "num" \in DOMAIN step THEN StepOfBigInt(step.num)
  ELSE IF step = NonFinite THEN 1
  ELSE IF "number" \in DOMAIN step THEN StepOfBigInt(Abs(step.number))
  ELSE StepOfParsed(StringToBigInt(toLowerCase(trim(step.str))))

formatBlockHex(num) == HexKey(num)

\* lines 277-289: one pass of the for statement on
\* acc = [blockTargets |-> sequence, current |-> height, stop |-> BOOLEAN]
TargetStep(acc, iterations, end, step, forward, maxSamples) ==
  IF acc.stop THEN acc
  ELSE IF ~(IF forward THEN acc.current <= end ELSE acc.current >= end)
    THEN [acc EXCEPT !.stop = TRUE]
  ELSE IF iterations >= maxSamples THEN [acc EXCEPT !.stop = TRUE]
  ELSE [blockTargets |-> Append(acc.blockTargets, acc.current),
        current |-> IF forward THEN acc.current + step ELSE acc.current - step,
        stop |-> FALSE]

BlockTargets(start, end, step, maxSamples) ==
  ForLoopBreak(
    LAMBDA acc, n : TargetStep(acc, n - 1, end, step, start <= end, maxSamples),
    [blockTargets |-> <<>>, current |-> start, stop |-> FALSE],
    1, maxSamples + 1).blockTargets

\* line 292: Math.max(1, Math.floor(concurrency)); concurrency is a rational
Floor(x) == x[1] \div x[2]
ChunkSize(concurrency) == Max(1, Floor(concurrency))

\* lines 302-308
Snapshot(blockInfo, rate) ==
  [blockNumber |-> blockInfo.number,
   blockNumberHex |-> formatBlockHex(blockInfo.number),
   timestamp |-> blockInfo.timestampMs,
   rate |-> rate]

\* the snapshots are left in collection order
ReverseKeep(seq) == seq

Reverse(seq) == [j \in 1..Len(seq) |-> seq[Len(seq) + 1 - j]]

SampIdle ==
  [pc |-> "idle", start |-> 0, end |-> 0, blockInterval |-> Undefined,
   step |-> 1, maxSamples |-> 1,
   forward |-> TRUE, blockTargets |-> <<>>, chunkSize |-> 1,
   i |-> 0, task |-> <<>>, snapshots |-> <<>>, ret |-> <<>>]

\* the slice is one target too long
ChunkWide(sm) ==
  {k \in 1..Len(sm.blockTargets) : sm.i < k /\ k <= sm.i + sm.chunkSize + 1}

\* indices (1-based) of the targets of the chunk blockTargets.slice(i, i + chunkSize)
Chunk(sm) == {k \in 1..Len(sm.blockTargets) : sm.i < k /\ k <= sm.i + sm.chunkSize}

\* chunk.map(async ...) starts every fetch of the chunk (line 296-298)
StartChunk(sm) ==
  [sm EXCEPT !.task = [k \in 1..Len(sm.blockTargets) |->
                         IF k \in Chunk(sm) THEN [st |-> "block"] ELSE sm.task[k]]]

\* the call, up to the first await of the first chunk
SampCall(startBlock, endBlock, blockInterval, maxSamples, concurrency) ==
  LET targets == IF maxSamples <= 0 THEN <<>>
                 ELSE BlockTargets(startBlock, endBlock,
                                   toStepBigInt(blockInterval), maxSamples)
      sm == [pc |-> "run", start |-> startBlock, end |-> endBlock,
             blockInterval |-> blockInterval,
             step |-> toStepBigInt(blockInterval), maxSamples |-> maxSamples,
             forward |-> startBlock <= endBlock,
             blockTargets |-> targets, chunkSize |-> ChunkSize(concurrency),
             i |-> 0, task |-> [k \in 1..Len(targets) |-> [st |-> "wait"]],
             snapshots |-> <<>>, ret |-> <<>>]
  IN IF maxSamples <= 0 THEN [sm EXCEPT !.pc = "raised"]   \* lines 268-270
     ELSE IF Len(targets) = 0 THEN [sm EXCEPT !.pc = "done"]
     ELSE StartChunk(sm)

ChunkOfTarget(sm, k) == (k - 1) \div sm.chunkSize

InFlight(sm) == {k \in 1..Len(sm.blockTargets) : sm.task[k].st \in {"block", "rate"}}

\* line 298: fetchBlockInfo of target k settles
SampBlock(k) ==
  /\ samp.pc \in {"run", "raised"}
  /\ k \in 1..Len(samp.blockTargets)
  /\ samp.task[k].st = "block"
  /\ \E rpc \in Responses :
       LET r == fetchBlockInfo(blockCache, NumRef(samp.blockTargets[k]), rpc)
       IN /\ blockCache' = r.cache
          /\ faultsLeft' = Faults(rpc, r)
          /\ samp' =
               IF r.status = "throw"
                 THEN [samp EXCEPT !.task[k] = [st |-> "rejected"], !.pc = "raised"]
               ELSE IF r.status = "null"
                 THEN [samp EXCEPT !.task[k] = [st |-> "null"]]
               ELSE [samp EXCEPT !.task[k] = [st |-> "rate", blockInfo |-> r.info]]
  /\ UNCHANGED <<chain, usd, loc, stg, lastQiToQuaiRate, find, pipe, rs>>

\* lines 300-308: fetchQiToQuai of target k settles
SampRate(k) ==
  /\ samp.pc \in {"run", "raised"}
  /\ k \in 1..Len(samp.blockTargets)
  /\ samp.task[k].st = "rate"
  /\ \E rpc \in Responses :
       LET info == samp.task[k].blockInfo
           rate == fetchQiToQuai(info.number, rpc)
       IN /\ faultsLeft' = IF rpc # "ok" THEN faultsLeft - 1 ELSE faultsLeft
          /\ samp' = [samp EXCEPT !.task[k] =
                        [st |-> "snap", snapshot |-> Snapshot(info, rate),
                         rateRpc |-> rpc]]
  /\ UNCHANGED <<chain, usd, loc, stg, blockCache, lastQiToQuaiRate, find, pipe, rs>>

\* lines 311-313: the non-null results of the chunk, in the chunk's order
PushBatch(sm) ==
  LET picked == SelectSeq([k \in 1..Len(sm.blockTargets) |-> k],
                          LAMBDA k : k \in Chunk(sm) /\ sm.task[k].st = "snap")
  IN sm.snapshots \o [j \in 1..Len(picked) |-> sm.task[picked[j]].snapshot]

\* lines 296, 311-320: Promise.all of the chunk resolves; next chunk or return
SampChunkDone ==
  /\ samp.pc = "run"
  /\ \A k \in Chunk(samp) : samp.task[k].st \in {"snap", "null"}
  /\ LET sm == [samp EXCEPT !.snapshots = PushBatch(samp),
                            !.i = samp.i + samp.chunkSize]
     IN samp' = IF sm.i < Len(sm.blockTargets)
                  THEN StartChunk(sm)
                  ELSE [sm EXCEPT !.pc = "done",
                                  !.ret = IF sm.forward THEN sm.snapshots
                                          ELSE Reverse(sm.snapshots)]
  /\ UNCHANGED <<chain, usd, loc, stg, blockCache, lastQiToQuaiRate, faultsLeft, find, pipe, rs>>

(***************************************************************************)
(* fetchQiToQuaiSnapshots run to completion in one step, for the pipeline: *)
(* the same fetches as SampBlock / SampRate / SampChunkDone, with the      *)
(* network's answer to target k given by outcome[k]:                       *)
(*   "ok", "missing" / "error" (block fetch),                              *)
(*   "rateMissing" / "rateError" (rate fetch)                              *)
(***************************************************************************)
SampleKinds == {"missing", "error", "rateMissing", "rateError"}

BlockRpc(o) == IF o \in {"missing", "error"} THEN o ELSE "ok"
RateRpc(o) == IF o = "rateMissing" THEN "missing"
              ELSE IF o = "rateError" THEN "error" ELSE "ok"

SampleAll(cache, sm, outcome) ==
  LET n == Len(sm.blockTargets)
      blk == [k \in 1..n |->
                fetchBlockInfo(cache, NumRef(sm.blockTargets[k]), BlockRpc(outcome[k]))]
      thrown == {k \in 1..n : blk[k].status = "throw"}
      \* a chunk is started only if no fetch of an earlier chunk has thrown
      started == {k \in 1..n : \A j \in thrown : ChunkOfTarget(sm, j) >= ChunkOfTarget(sm, k)}
      okIdx == SelectSeq([k \in 1..n |-> k],
                         LAMBDA k : k \in started /\ blk[k].status = "ok")
      snapshots == [j \in 1..Len(okIdx) |->
                      Snapshot(blk[okIdx[j]].info,
                               fetchQiToQuai(blk[okIdx[j]].info.number,
                                             RateRpc(outcome[okIdx[j]])))]
      fetched == {sm.blockTargets[k] : k \in {j \in started : blk[j].status = "ok"}}
      add == {HexKey(h) : h \in fetched} \cup {DecKey(h) : h \in fetched}
  IN [status |-> IF thrown # {} THEN "throw" ELSE "ok",
      snapshots |-> IF sm.forward THEN snapshots ELSE Reverse(snapshots),
      cache |-> [key \in DOMAIN cache \cup add |->
                   IF key \in DOMAIN cache THEN cache[key]
                   ELSE LET h == IF "hex" \in DOMAIN key THEN key.hex ELSE key.dec
                        IN blk[CHOOSE k \in started : sm.blockTargets[k] = h].info],
      used |-> Cardinality({k \in started :
                 \/ (blk[k].network /\ BlockRpc(outcome[k]) # "ok")
                 \/ (blk[k].status = "ok" /\ RateRpc(outcome[k]) # "ok")})]

(***************************************************************************)
(* qiHistoryServer.ts lines 120-240: fetchQiPriceHistoryFromRpc            *)
(***************************************************************************)
PipeIdle ==
  [pc |-> "idle", range |-> "1h", latestInfo |-> Null, startInfo |-> Null,
   snapshots |-> <<>>, ret |-> <<>>]

\* the call, up to the await of line 122
PipeCall(range) == [PipeIdle EXCEPT !.pc = "latest", !.range = range]

\* line 125: Math.max(0, latestInfo.timestampMs - config.durationMs), with
\* the duration in seconds (timestampMs is a multiple of 1000, line 129 of
\* cryptoApi.ts)
TargetStart(range, latestInfo) ==
  Max(0, latestInfo.timestampMs \div 1000 - QI_HISTORY_RANGE_CONFIG[range].durationSec)
    * 1000

\* lines 122-126
PipeLatest ==
  /\ pipe.pc = "latest"
  /\ \E rpc \in Responses :
       LET r == fetchBlockInfo(blockCache, LatestRef, rpc)
       IN /\ blockCache' = r.cache
          /\ faultsLeft' = Faults(rpc, r)
          /\ IF r.status = "throw"
               THEN pipe' = [pipe EXCEPT !.pc = "raised"] /\ UNCHANGED find
             ELSE IF r.status = "null"
               THEN pipe' = [pipe EXCEPT !.pc = "done", !.ret = <<>>] /\ UNCHANGED find
             ELSE /\ pipe' = [pipe EXCEPT !.pc = "find", !.latestInfo = r.info]
                  /\ find' = FindCall(TargetStart(pipe.range, r.info))
  /\ UNCHANGED <<chain, usd, loc, stg, lastQiToQuaiRate, samp, rs>>

\* the options of lines 129-145
SamplerOptions(range, latestInfo, startInfo) ==
  LET samples == normalizeSamples(QI_HISTORY_RANGE_CONFIG[range].samples)
      totalBlocks == IF latestInfo.number > startInfo.number
                       THEN latestInfo.number - startInfo.number ELSE 0
      rawInterval == IF samples > 1 THEN totalBlocks \div (samples - 1) ELSE 0
      blockInterval == IF rawInterval < 1 THEN 1 ELSE rawInterval
  IN [startBlock |-> startInfo.number, endBlock |-> latestInfo.number,
      blockInterval |-> blockInterval, maxSamples |-> samples + 5,
      concurrency |-> RInt(RangeConcurrency(range))]

\* the answers of the network to the sampler's targets: at most two of
\* them, and no more than faultsLeft, are failures
SampleOutcomes(n) ==
  LET idx == IF faultsLeft > 0 THEN 0..n ELSE {0}
      idx2 == IF faultsLeft > 1 THEN 0..n ELSE {0}
  IN {[k \in 1..n |-> IF k = a THEN ka ELSE IF k = b THEN kb ELSE "ok"] :
        a \in idx, b \in idx2, ka \in SampleKinds, kb \in SampleKinds}

\* lines 126-149: findBlockAtOrBeforeTimestamp has settled; the sampler runs
PipeSample ==
  /\ pipe.pc = "find"
  /\ find.pc \in {"done", "raised"}
  /\ find' = FindIdle
  /\ IF find.pc = "raised"
       THEN /\ pipe' = [pipe EXCEPT !.pc = "raised"]
            /\ UNCHANGED <<blockCache, faultsLeft>>
     ELSE IF find.ret = Null
       THEN /\ pipe' = [pipe EXCEPT !.pc = "done", !.ret = <<>>]
            /\ UNCHANGED <<blockCache, faultsLeft>>
     ELSE LET o == SamplerOptions(pipe.range, pipe.latestInfo, find.ret)
              sm == SampCall(o.startBlock, o.endBlock, NumRef(o.blockInterval),
                             o.maxSamples, o.concurrency)
          IN \E outcome \in SampleOutcomes(Len(sm.blockTargets)) :
               LET r == SampleAll(blockCache, sm, outcome)
               IN /\ blockCache' = r.cache
                  /\ faultsLeft' = faultsLeft - r.used
                  /\ pipe' =
                       IF r.status = "throw"
                         THEN [pipe EXCEPT !.pc = "raised", !.startInfo = find.ret]
                       ELSE IF Len(r.snapshots) = 0
                         THEN [pipe EXCEPT !.pc = "done", !.ret = <<>>,
                                           !.startInfo = find.ret]
                       ELSE [pipe EXCEPT !.pc = "usd", !.startInfo = find.ret,
                                         !.snapshots = r.snapshots]
  /\ UNCHANGED <<chain, usd, loc, stg, lastQiToQuaiRate, samp, rs>>

\* cryptoApi.ts fetchQuaiUsdPrice: the pipeline is run with a finite price > 0
UsdPrices == {Rat(7, 100)}

\* lines 151-239
PipeFinish ==
  /\ pipe.pc = "usd"
  /\ \E quaiUsdPrice \in UsdPrices :
       pipe' = [pipe EXCEPT !.pc = "done",
                            !.ret = ProcessSnapshots(pipe.range, pipe.snapshots,
                                                     quaiUsdPrice)]
  /\ UNCHANGED <<chain, usd, loc, stg, blockCache, lastQiToQuaiRate, faultsLeft, find, samp, rs>>

(***************************************************************************)
(* One application of the resample step (lines 209-220) to a series        *)
(***************************************************************************)
RsIdle == [pc |-> "idle", points |-> <<>>, targetCount |-> 2, out |-> <<>>]

RsApply ==
  /\ rs.pc = "in"
  /\ rs' = [rs EXCEPT !.pc = "out", !.out = Resample(rs.points, rs.targetCount)]
  /\ UNCHANGED <<chain, usd, loc, stg, blockCache, lastQiToQuaiRate, faultsLeft, find, samp, pipe>>


(***************************************************************************)
(* One application of a stage of the series pipeline to a series           *)
(***************************************************************************)
StgReturn(out) ==
  /\ stg' = [stg EXCEPT !.pc = "out", !.out = out]
  /\ UNCHANGED <<chain, usd, blockCache, lastQiToQuaiRate, faultsLeft, find, samp, pipe,
                 rs, loc>>

\* the QUAI/USD price the stage frame converts with
StgUsd == Rat(7, 100)

\* qiHistoryServer.ts lines 152-171
StgConvert ==
  /\ stg.pc = "in"
  /\ stg.op = "convert"
  /\ StgReturn(ConvertSnapshots(stg.points, StgUsd))

\* part_003 lines 325-350
StgConvertRev ==
  /\ stg.pc = "in"
  /\ stg.op = "convertRev"
  /\ StgReturn(convertSnapshotsToPricePoints(stg.points, StgUsd))

\* qiHistoryServer.ts lines 173-205
StgBucket ==
  /\ stg.pc = "in"
  /\ stg.op = "bucket"
  /\ StgReturn(BucketPoints(stg.range, stg.points))

\* part_003 line 306
StgBucketRev ==
  /\ stg.pc = "in"
  /\ stg.op = "bucketRev"
  /\ StgReturn(bucketPoints(stg.points, RANGE_BUCKET_MS_REV[stg.range]))

\* qiHistoryServer.ts line 207
StgSmooth ==
  /\ stg.pc = "in"
  /\ stg.op = "smooth"
  /\ StgReturn(smoothPoints(stg.range, stg.points))

\* part_003 lines 309-311
StgOutliers ==
  /\ stg.pc = "in"
  /\ stg.op = "outliers"
  /\ StgReturn(IF Len(stg.points) >= 3
                 THEN removeExtremeOutliers(stg.range, stg.points)
                 ELSE stg.points)

\* qiHistoryServer.ts line 223
StgDensify ==
  /\ stg.pc = "in"
  /\ stg.op = "densify"
  /\ StgReturn(densifyPoints(stg.range, stg.points))

\* part_004 line 219
StgDensifyRev ==
  /\ stg.pc = "in"
  /\ stg.op = "densifyRev"
  /\ StgReturn(densifyPointsRev(stg.range, stg.points))

\* the bucket width the stage frame's operation uses
StgBucketMs ==
  IF stg.op = "bucketRev" THEN RANGE_BUCKET_MS_REV[stg.range]
  ELSE RANGE_BUCKET_MS[stg.range]

(***************************************************************************)
(* cryptoApi.ts lines 509-575: fetchQuaiUsdPrice, with the module state it *)
(* reads and writes (lastQuaiUsdPrice, quaiPriceHistory).  Times are kept  *)
(* in seconds.                                                             *)
(***************************************************************************)
\* values of a price field of a provider's JSON body: a finite number, the
\* number a literal beyond the double range parses to, a string, or no field
PriceNumber(r) == [price |-> r]
PosInfinity == [infinity |-> TRUE]

\* typeof v === "number"
IsNumber(v) == v = PosInfinity \/ v = NaN \/ "price" \in DOMAIN v

\* v > 0
GreaterThanZero(v) == v = PosInfinity \/ ("price" \in DOMAIN v /\ RPos(v.price))

\* Number.isFinite(v)
NumberIsFinite(v) == "price" \in DOMAIN v

\* !v for a number or null
Falsy(v) == v = Null \/ v = NaN \/ v = PriceNumber(RZero)

\* line 573: the built-in default
DEFAULT_QUAI_USD == Rat(68177, 1000000)

\* lines 335 and 337
MAX_HISTORY_AGE_SEC == 30 * 24 * 60 * 60
MIN_SAMPLE_INTERVAL_SEC == 60

\* line 363: Math.abs(point.price - last.price) / (last.price || 1) >= 0.01;
\* with an infinite last price the quotient is NaN, and so it is when both
\* prices are infinite
ChangedByOnePercent(price, lastPrice) ==
  IF lastPrice = PosInfinity THEN FALSE
  ELSE IF price = PosInfinity THEN TRUE
  ELSE RLeq(Rat(1, 100),
            RDiv(RAbs(RSub(price.price, lastPrice.price)), lastPrice.price))

\* lines 348-373: addHistoryPoint('quai', point) at time now
addHistoryPoint(history, point, now) ==
  LET trimmed == SelectSeq(history,
                   LAMBDA p : p.timestamp >= now - MAX_HISTORY_AGE_SEC)
      shouldAppend ==
        \/ Len(trimmed) = 0
        \/ point.timestamp - trimmed[Len(trimmed)].timestamp >= MIN_SAMPLE_INTERVAL_SEC
        \/ ChangedByOnePercent(point.price, trimmed[Len(trimmed)].price)
  IN IF shouldAppend THEN Append(trimmed, point) ELSE trimmed

\* line 531: the primary price is rejected
RejectedPrimary(price) == ~NumberIsFinite(price) \/ ~GreaterThanZero(price)

\* lines 525-529: the price of the primary provider's body
PrimaryPrice(data) ==
  IF IsNumber(data.coins) /\ GreaterThanZero(data.coins) THEN data.coins
  ELSE IF IsNumber(data.legacy) /\ GreaterThanZero(data.legacy) THEN data.legacy
  ELSE NaN

\* line 573: lastQuaiUsdPrice || 0.068177
LastOrDefault(lastQuaiUsdPrice) ==
  IF Falsy(lastQuaiUsdPrice) THEN PriceNumber(DEFAULT_QUAI_USD)
  ELSE lastQuaiUsdPrice

UsdIdle ==
  [pc |-> "idle", calls |-> 0, now |-> 0, lastQuaiUsdPrice |-> Null,
   quaiPriceHistory |-> <<>>, response |-> Null, ret |-> Null]

\* lines 535-542 and 562-566: the price is accepted at time now and returned
AcceptPrice(u, price, now) ==
  [u EXCEPT !.pc = "done", !.now = now, !.lastQuaiUsdPrice = price,
            !.quaiPriceHistory =
               addHistoryPoint(@, [timestamp |-> now, price |-> price], now),
            !.ret = price]

\* line 573
ReturnLast(u) == [u EXCEPT !.pc = "done", !.ret = LastOrDefault(u.lastQuaiUsdPrice)]

\* what a provider does: the request fails, the status is not OK, the body
\* is no JSON, or the body carries the price fields coins["coingecko:
\* quai-network"].price and ["quai-network"].usd
PriceFields ==
  {Undefined, StrRef(<<"1">>), PosInfinity, PriceNumber(RInt(0 - 1)),
   PriceNumber(RZero), PriceNumber(RInt(1)), PriceNumber(Rat(101, 100))}
ProviderResponses ==
  {[kind |-> k] : k \in {"error", "notOk", "badJson"}}
  \cup {[kind |-> "json", coins |-> c, legacy |-> l] :
          c \in PriceFields, l \in PriceFields}

\* the time that passes up to a Date.now() of the function
Elapsed == {0, MIN_SAMPLE_INTERVAL_SEC, MAX_HISTORY_AGE_SEC}

UsdMaxCalls == 3      \* calls of fetchQuaiUsdPrice, one after the other

\* line 509: a call, up to the await of line 511
UsdCall ==
  /\ usd.pc \in {"idle", "done"}
  /\ usd.calls < UsdMaxCalls
  /\ usd' = [usd EXCEPT !.pc = "primary", !.calls = @ + 1, !.response = Null,
                        !.ret = Null]
  /\ UNCHANGED <<chain, blockCache, lastQiToQuaiRate, faultsLeft, find, samp,
                 pipe, rs, loc, stg>>

\* lines 511-545: the primary provider has answered
UsdPrimary ==
  /\ usd.pc = "primary"
  /\ \E response \in ProviderResponses, elapsed \in Elapsed :
       LET u == [usd EXCEPT !.response = response]
       IN usd' =
            IF response.kind = "json" /\ ~RejectedPrimary(PrimaryPrice(response))
              THEN AcceptPrice(u, PrimaryPrice(response), usd.now + elapsed)
            ELSE IF Falsy(usd.lastQuaiUsdPrice)
              THEN [u EXCEPT !.pc = "fallback"]
            ELSE ReturnLast(u)
  /\ UNCHANGED <<chain, blockCache, lastQiToQuaiRate, faultsLeft, find, samp,
                 pipe, rs, loc, stg>>

\* lines 547-573: the fallback provider has answered
UsdFallback ==
  /\ usd.pc = "fallback"
  /\ \E response \in ProviderResponses, elapsed \in Elapsed :
       LET u == [usd EXCEPT !.response = response]
       IN usd' =
            IF /\ response.kind = "json"
               /\ IsNumber(response.legacy)
               /\ GreaterThanZero(response.legacy)
              THEN AcceptPrice(u, response.legacy, usd.now + elapsed)
            ELSE ReturnLast(u)
  /\ UNCHANGED <<chain, blockCache, lastQiToQuaiRate, faultsLeft, find, samp,
                 pipe, rs, loc, stg>>

(***************************************************************************)
(* Specification of the start-block search on every small chain.           *)
(***************************************************************************)
EmptyCache == [k \in {} |-> Null]

InitSearch ==
  /\ head \in 0..MaxHead
  /\ chainTs \in [0..head -> 0..MaxTsSec]
  /\ chainRate = [h \in 0..head |-> RateHex(<<1>>)]
  /\ blockCache = EmptyCache
  /\ lastQiToQuaiRate = Null
  /\ usd = UsdIdle
  /\ faultsLeft = MaxFaults
  /\ \E t \in 0..MaxTsSec : find = FindCall(t * 1000)
  /\ samp = SampIdle
  /\ pipe = PipeIdle
  /\ rs = RsIdle
  /\ loc = LocIdle
  /\ stg = StgIdle

NextSearch == FindLatest \/ FindBackoff \/ FindBisect

SpecSearch == InitSearch /\ [][NextSearch]_vars

(***************************************************************************)
(* Specification of the start-block search where every request may fail or *)
(* return no block, on every small chain and on one longer chain of one    *)
(* block a second.  Each await of the search settles (the network answers  *)
(* or fails), so the search keeps taking steps while it can.               *)
(***************************************************************************)
LiveHead == 40        \* head of the longer chain
LiveMaxHead == 5      \* highest head of the enumerated chains
LiveMaxTsSec == 1     \* their header timestamps are 0..LiveMaxTsSec

InitSearchLive ==
  /\ \/ /\ head \in 0..LiveMaxHead
        /\ chainTs \in [0..head -> 0..LiveMaxTsSec]
        /\ \E t \in 0..LiveMaxTsSec : find = FindCall(t * 1000)
     \/ /\ head = LiveHead
        /\ chainTs = [h \in 0..head |-> h]
        /\ \E t \in 0..head : find = FindCall(t * 1000)
  /\ chainRate = [h \in 0..head |-> RateHex(<<1>>)]
  /\ blockCache = EmptyCache
  /\ lastQiToQuaiRate = Null
  /\ usd = UsdIdle
  /\ faultsLeft = 2 * head + 2
  /\ samp = SampIdle
  /\ pipe = PipeIdle
  /\ rs = RsIdle
  /\ loc = LocIdle
  /\ stg = StgIdle

SpecSearchLive == InitSearchLive /\ [][NextSearch]_vars /\ WF_vars(NextSearch)

(***************************************************************************)
(* Specification of the snapshot sampler on small requests.                *)
(***************************************************************************)
\* the blockInterval options: absent, every bigint up to SampMaxStep in
\* absolute value, and numbers and strings of the stride SampMaxStep
SampIntervals ==
  {Undefined, NonFinite, NumberRef(0 - SampMaxStep),
   StrRef(<<"-">> \o toStringBase(SampMaxStep, 10)),
   StrRef(<<" ", "0", "X">> \o toStringBase(SampMaxStep, 16)),
   StrRef(<<"z">>), StrRef(<<>>)}
    \cup {NumRef(n) : n \in (0 - SampMaxStep)..SampMaxStep}

InitSampler ==
  /\ head = SampMaxHead
  /\ chainTs = [h \in 0..head |-> h]
  /\ chainRate = [h \in 0..head |-> RateHex(<<h + 1>>)]
  /\ blockCache = EmptyCache
  /\ lastQiToQuaiRate \in {Null, RateHex(<<9>>)}
  /\ usd = UsdIdle
  /\ faultsLeft = MaxFaults
  /\ find = FindIdle
  /\ \E startBlock, endBlock \in 0..(head + 1), maxSamples \in 1..SampMaxSamples,
        blockInterval \in SampIntervals, c \in 0..SampMaxConc :
       samp = SampCall(startBlock, endBlock, blockInterval, maxSamples, Rat(c, 2))
  /\ pipe = PipeIdle
  /\ rs = RsIdle
  /\ loc = LocIdle
  /\ stg = StgIdle

NextSampler ==
  \/ \E k \in 1..SampMaxSamples + 1 : SampBlock(k)
  \/ \E k \in 1..SampMaxSamples + 1 : SampRate(k)
  \/ SampChunkDone

SpecSampler == InitSampler /\ [][NextSampler]_vars

(***************************************************************************)
(* Specification of the whole pipeline: every small chain, and one long    *)
(* regular chain (one block a minute, no failed response) on which the     *)
(* series is longer than the sample count.                                 *)
(***************************************************************************)
PipeTs == {0, 40, 80, 90000}             \* header timestamps, in seconds
PipeRateCycle == <<RateHex(<<2, 0>>), RateHex(<<1>>), RateHex(<<4>>)>>

InitPipeline ==
  /\ \/ /\ head \in 0..PipeMaxHead
        /\ chainTs \in [0..head -> PipeTs]
        /\ \/ chainRate = [h \in 0..head |-> PipeRateCycle[(h % 3) + 1]]
           \/ chainRate = [h \in 0..head |-> RateHex(<<1>>)]
        /\ faultsLeft = PipeMaxFaults
     \/ /\ head = LongHead
        /\ chainTs = [h \in 0..head |-> 60 * h]
        /\ chainRate = [h \in 0..head |-> RateHex(<<1>>)]
        /\ faultsLeft = 0
  /\ blockCache = EmptyCache
  /\ lastQiToQuaiRate = Null
  /\ usd = UsdIdle
  /\ find = FindIdle
  /\ samp = SampIdle
  /\ \E range \in Ranges : pipe = PipeCall(range)
  /\ rs = RsIdle
  /\ loc = LocIdle
  /\ stg = StgIdle

NextPipeline ==
  \/ PipeLatest
  \/ FindLatest \/ FindBackoff \/ FindBisect
  \/ PipeSample
  \/ PipeFinish

SpecPipeline == InitPipeline /\ [][NextPipeline]_vars

(***************************************************************************)
(* Specification of the pipeline on a chain that grows while the pipeline  *)
(* runs: the node holds the blocks 0..AdvMaxHead, one every blockSec       *)
(* seconds, and the tag "latest" resolves to a higher block from one       *)
(* request to the next.                                                    *)
(***************************************************************************)
AdvMaxHead == 4       \* highest block of the growing chain
AdvMaxFaults == 1     \* failed or empty responses on the growing chain
AdvBlockSecs == {60, 3600}               \* seconds between two blocks

\* qiHistoryServer.ts lines 53-54 and 122-123: each fetchBlockInfo("latest")
\* is a request of its own ("latest" has no cache key), and the node has
\* mined a block between two of them
HeadAdvance ==
  /\ head < AdvMaxHead
  /\ head' = head + 1
  /\ UNCHANGED <<chainTs, chainRate, blockCache, lastQiToQuaiRate, faultsLeft,
                 find, samp, pipe, rs, loc, stg, usd>>

InitAdvance ==
  /\ head \in 0..AdvMaxHead
  /\ \E blockSec \in AdvBlockSecs :
       chainTs = [h \in 0..AdvMaxHead |-> blockSec * h]
  /\ chainRate = [h \in 0..AdvMaxHead |-> RateHex(<<1>>)]
  /\ blockCache = EmptyCache
  /\ lastQiToQuaiRate = Null
  /\ usd = UsdIdle
  /\ faultsLeft = AdvMaxFaults
  /\ find = FindIdle
  /\ samp = SampIdle
  /\ \E range \in Ranges : pipe = PipeCall(range)
  /\ rs = RsIdle
  /\ loc = LocIdle
  /\ stg = StgIdle

NextAdvance ==
  \/ HeadAdvance
  \/ PipeLatest
  \/ FindLatest \/ FindBackoff \/ FindBisect
  \/ PipeSample
  \/ PipeFinish

SpecAdvance == InitAdvance /\ [][NextAdvance]_vars

(***************************************************************************)
(* Specification of the resample step on every short series with strictly  *)
(* increasing timestamps (what bucketing and densification hand to it) and *)
(* every sample count normalizeSamples can return up to RsMaxTarget.       *)
(***************************************************************************)
InitResample ==
  /\ head = 0
  /\ chainTs = [h \in 0..0 |-> 0]
  /\ chainRate = [h \in 0..0 |-> RateHex(<<1>>)]
  /\ blockCache = EmptyCache
  /\ lastQiToQuaiRate = Null
  /\ usd = UsdIdle
  /\ faultsLeft = 0
  /\ find = FindIdle
  /\ samp = SampIdle
  /\ pipe = PipeIdle
  /\ loc = LocIdle
  /\ stg = StgIdle
  /\ \E n \in 0..RsMaxLen, required \in 0..RsMaxTarget :
       \E gaps \in [1..n -> 1..2] :
         rs = [pc |-> "in",
               points |-> [j \in 1..n |->
                             [timestamp |-> 1000 * SumTo(gaps, j),
                              price |-> RInt(j),
                              blockNumberHex |-> formatBlockHex(j)]],
               targetCount |-> normalizeSamples(required),
               out |-> <<>>]

NextResample == RsApply

SpecResample == InitResample /\ [][NextResample]_vars

(***************************************************************************)
(* Specification of the block locator on one chain of LocHead + 1 blocks.  *)
(***************************************************************************)
InitLocator ==
  /\ head = LocHead
  /\ chainTs = [h \in 0..head |-> h + 1]
  /\ chainRate = [h \in 0..head |-> RateHex(<<1>>)]
  /\ blockCache = EmptyCache
  /\ lastQiToQuaiRate = Null
  /\ usd = UsdIdle
  /\ faultsLeft = LocMaxFaults
  /\ find = FindIdle
  /\ samp = SampIdle
  /\ pipe = PipeIdle
  /\ rs = RsIdle
  /\ loc = LocIdle
  /\ stg = StgIdle

\* the references a further fetchBlockInfo call may be given, and those a
\* single normalizeBlockParam or resolveBlockNumber call may be given
LocFetchRefs ==
  IF loc.pure # Null THEN {}
  ELSE IF loc.calls = <<>> THEN LocRefs ELSE AliasRefs
LocPureRefs == IF loc.pure = Null /\ loc.calls = <<>> THEN LocRefs ELSE {}

NextLocator ==
  \/ \E block \in LocFetchRefs : LocFetchStart(block)
  \/ \E c \in 1..Len(loc.calls) : LocFetchFinish(c)
  \/ \E block \in LocPureRefs : LocNormalize(block)
  \/ \E block \in LocPureRefs : LocResolve(block)

SpecLocator == InitLocator /\ [][NextLocator]_vars

(***************************************************************************)
(* Specification of the series stages, each applied once to a small input. *)
(***************************************************************************)
StgSnapshotTimes == {0, 1000, 2000}
StgRates == {RateHex(<<1>>), RateHex(<<2>>), RateHex(<<0>>), Undefined}

\* snapshots as the sampler returns them, in any time order
StgSnapshots(n, ts, rates) ==
  [j \in 1..n |-> [blockNumber |-> j, blockNumberHex |-> formatBlockHex(j),
                   timestamp |-> ts[j], rate |-> rates[j]]]

StgConvertInputs ==
  \E op \in {"convert", "convertRev"}, n \in 0..StgMaxSnapshots :
    \E ts \in [1..n -> StgSnapshotTimes], rates \in [1..n -> StgRates] :
      stg = StgCall(op, "1h", StgSnapshots(n, ts, rates))

\* a series with non-decreasing timestamps: the gaps are multiples of unit
StgSeries(n, unit, gaps, prices) ==
  [j \in 1..n |-> [timestamp |-> unit * SumTo(gaps, j), price |-> RInt(prices[j]),
                   blockNumberHex |-> formatBlockHex(j)]]

\* sorted series whose gaps are thirds of the range's bucket width
StgBucketInputs(op, width) ==
  \E range \in Ranges, n \in 0..StgMaxPoints :
    \E gaps \in [1..n -> 0..StgMaxGap] :
      stg = StgCall(op, range,
                    StgSeries(n, width[range] \div 3, gaps, [j \in 1..n |-> j]))

\* series of up to StgMaxSmooth points of one price; in range "1h" the last
\* point of a series of up to StgMaxVaried points may have another price
StgSmoothInputs ==
  \E range \in Ranges, n \in 0..StgMaxSmooth, last \in {1, 2} :
    /\ last = 2 => (range = "1h" /\ n <= StgMaxVaried)
    /\ stg = StgCall("smooth", range,
                     StgSeries(n, 1000, [j \in 1..n |-> 1],
                               [j \in 1..n |-> IF j = n THEN last ELSE 1]))

StgOutlierPrices == {1, 2, 10}
StgOutlierInputs ==
  \E range \in Ranges, n \in 0..StgMaxPoints :
    \E prices \in [1..n -> StgOutlierPrices] :
      stg = StgCall("outliers", range,
                    StgSeries(n, 1000, [j \in 1..n |-> 1], prices))

\* series with non-decreasing millisecond timestamps: equal timestamps, gaps
\* shorter than the segment count and long gaps
StgDensifyGaps == (0..StgDensifyGap) \cup {StgLongGap}
StgDensifyPrices == {1, 2, 10}
StgDensifyInputs ==
  \E op \in {"densify", "densifyRev"}, range \in Ranges, n \in 0..StgMaxDensify :
    \E gaps \in [1..n -> StgDensifyGaps], prices \in [1..n -> StgDensifyPrices] :
      /\ n > 0 => gaps[1] = 0
      /\ stg = StgCall(op, range, StgSeries(n, 1, gaps, prices))

StgInputs ==
  \/ StgConvertInputs
  \/ StgDensifyInputs
  \/ StgSmoothInputs
  \/ StgOutlierInputs
  \/ StgBucketInputs("bucket", RANGE_BUCKET_MS)
  \/ StgBucketInputs("bucketRev", RANGE_BUCKET_MS_REV)

InitStages ==
  /\ head = 0
  /\ chainTs = [h \in 0..0 |-> 0]
  /\ chainRate = [h \in 0..0 |-> RateHex(<<1>>)]
  /\ blockCache = EmptyCache
  /\ lastQiToQuaiRate = Null
  /\ usd = UsdIdle
  /\ faultsLeft = 0
  /\ find = FindIdle
  /\ samp = SampIdle
  /\ pipe = PipeIdle
  /\ rs = RsIdle
  /\ loc = LocIdle
  /\ StgInputs

NextStages ==
  \/ StgConvert
  \/ StgConvertRev
  \/ StgBucket
  \/ StgBucketRev
  \/ StgSmooth
  \/ StgOutliers
  \/ StgDensify
  \/ StgDensifyRev

SpecStages == InitStages /\ [][NextStages]_vars

(***************************************************************************)
(* Specification of fetchQuaiUsdPrice: up to UsdMaxCalls calls, one after  *)
(* the other, from the state of a freshly loaded module, with every answer *)
(* of the two providers.                                                   *)
(***************************************************************************)
InitUsd ==
  /\ head = 0
  /\ chainTs = [h \in 0..0 |-> 0]
  /\ chainRate = [h \in 0..0 |-> RateHex(<<1>>)]
  /\ blockCache = EmptyCache
  /\ lastQiToQuaiRate = Null
  /\ usd = UsdIdle
  /\ faultsLeft = 0
  /\ find = FindIdle
  /\ samp = SampIdle
  /\ pipe = PipeIdle
  /\ rs = RsIdle
  /\ loc = LocIdle
  /\ stg = StgIdle

NextUsd == UsdCall \/ UsdPrimary \/ UsdFallback

SpecUsd == InitUsd /\ [][NextUsd]_vars

(***************************************************************************)
(* Properties                                                              *)
(***************************************************************************)
Range(seq) == {seq[j] : j \in 1..Len(seq)}

StrictlyAscending(points) ==
  \A j \in 1..Len(points) - 1 : points[j].timestamp < points[j + 1].timestamp

Samples(range) == normalizeSamples(QI_HISTORY_RANGE_CONFIG[range].samples)

\* C1: the series fetchQiPriceHistoryFromRpc returns is strictly ascending
\* by timestamp, so no two of its points share a timestamp.
ThmC1 == pipe.pc = "done" => StrictlyAscending(pipe.ret)

\* the sampler returned snapshots that repeat a timestamp or are out of
\* time order, and a series of several points was returned
WitC1 ==
  /\ pipe.pc = "done"
  /\ Len(pipe.ret) >= 2
  /\ \E j \in 1..Len(pipe.snapshots) - 1 :
       pipe.snapshots[j].timestamp >= pipe.snapshots[j + 1].timestamp

\* C2: the returned series has at most samples * densifyFactor points.
ThmC2 ==
  pipe.pc = "done" => Len(pipe.ret) <= Samples(pipe.range) * DensifyFactor(pipe.range)

\* more snapshots than samples came back, the first resample cut the series
\* and densification made it longer than samples again
WitC2 ==
  /\ pipe.pc = "done"
  /\ Len(pipe.snapshots) > Samples(pipe.range)
  /\ Len(pipe.ret) > Samples(pipe.range)

\* C3: every point of a returned series has a price > 0 (prices of the
\* model are always finite).
InvC3 == pipe.pc = "done" => \A j \in 1..Len(pipe.ret) : RPos(pipe.ret[j].price)

Monotone == \A a, b \in DOMAIN chainTs : a <= b => chainTs[a] <= chainTs[b]
NoFailedProbe == \A j \in 1..Len(find.probes) : find.probes[j].status = "ok"
PreC4 ==
  /\ NoFailedProbe
  /\ Monotone
  /\ chainTs[0] * 1000 <= find.targetMs
  /\ find.targetMs < chainTs[head] * 1000

\* C4: with every probe answered, timestamps non-decreasing in height and
\* block 0 <= target < latest, the search returns the highest block whose
\* timestamp is <= target.
ThmC4 ==
  (find.pc = "done" /\ PreC4)
  => /\ find.ret # Null
     /\ find.ret.timestampMs <= find.targetMs
     /\ \A h \in 0..head : chainTs[h] * 1000 <= find.targetMs => h <= find.ret.number

\* a search that went through back-off with a doubled step and bisection and
\* returned a block strictly between block 0 and the latest block
WitC4 ==
  /\ find.pc = "done"
  /\ PreC4
  /\ find.step > 1
  /\ \E j \in 1..Len(find.probes) : find.probes[j].phase = "bisect"
  /\ find.ret.number > 0

LowFound ==
  \E j \in 1..Len(find.probes) :
    /\ find.probes[j].phase = "backoff"
    /\ find.probes[j].status = "ok"
    /\ chainTs[find.probes[j].block.num] * 1000 <= find.targetMs

ThmC6 ==
  /\ Cardinality(InFlight(samp)) <= samp.chunkSize
  /\ \A j, k \in 1..Len(samp.blockTargets) :
       (ChunkOfTarget(samp, j) < ChunkOfTarget(samp, k) /\ samp.task[k].st # "wait")
         => samp.task[j].st \in {"snap", "null"}

\* a later chunk of two targets is in flight while targets remain unstarted
\* or an earlier chunk is complete
WitC6 ==
  /\ samp.pc = "run"
  /\ samp.i > 0
  /\ samp.chunkSize = 2
  /\ Cardinality(InFlight(samp)) = 2

\* C7: a failed fetch of a sampled block or of its rate is absent data: the
\* sampler does not raise, and it returns the snapshot of every target
\* whose block and rate fetches both succeeded.
InvC7 ==
  /\ samp.pc # "raised"
  /\ samp.pc = "done" =>
       \A k \in 1..Len(samp.blockTargets) :
         (IF samp.task[k].st = "snap" THEN samp.task[k].rateRpc = "ok" ELSE FALSE)
           => \E j \in 1..Len(samp.ret) : samp.ret[j].blockNumber = samp.blockTargets[k]

\* C8: the pipeline returns the empty series, and does not raise, when the
\* latest block is not obtained, when no snapshot came back and when no
\* snapshot converts to a valid price point.
InvC8 ==
  /\ (pipe.pc \in {"done", "raised"} /\ pipe.latestInfo = Null)
       => (pipe.pc = "done" /\ pipe.ret = <<>>)
  /\ (pipe.pc = "done" /\
        \A price \in UsdPrices : ConvertSnapshots(pipe.snapshots, price) = <<>>)
       => pipe.ret = <<>>

\* C9: the resample step returns at most targetCount points.
InvC9 == rs.pc = "out" => Len(rs.out) <= rs.targetCount

IndexIn(points, p) == CHOOSE j \in 1..Len(points) : points[j] = p
IsSubsequence(out, points) ==
  /\ \A j \in 1..Len(out) : out[j] \in Range(points)
  /\ \A j, k \in 1..Len(out) : j < k => IndexIn(points, out[j]) < IndexIn(points, out[k])

\* C10: for a non-empty input the resample output ends with the input's
\* last point, starts with its first point and is a subsequence of it.
ThmC10 ==
  (rs.pc = "out" /\ Len(rs.points) > 0)
  => /\ rs.out[Len(rs.out)] = rs.points[Len(rs.points)]
     /\ rs.out[1] = rs.points[1]
     /\ IsSubsequence(rs.out, rs.points)

\* the series was cut and the stride did not land on the last point
WitC10 ==
  /\ rs.pc = "out"
  /\ Len(rs.points) > rs.targetCount
  /\ (Len(rs.points) - 1) % CeilDiv(Len(rs.points), rs.targetCount) # 0
  /\ Len(rs.out) < Len(rs.points)

\* classes of invalid references, read off the reference itself
IsNegativeRef(block) ==
  IF "num" \in DOMAIN block THEN block.num < 0
  ELSE IF "number" \in DOMAIN block THEN block.number < 0
  ELSE IF IsStr(block)
    THEN LET t == trim(block.str)
         IN /\ Len(t) >= 2
            /\ t[1] = "-"
            /\ AllDec(Tail(t))
            /\ DigitsValue(Tail(t), 10) > 0
  ELSE FALSE
IsMalformedHex(block) ==
  IF IsStr(block)
    THEN LET t == toLowerCase(trim(block.str))
         IN StartsWith0x(t) /\ (Len(t) = 2 \/ ~AllHex(SubSeq(t, 3, Len(t))))
    ELSE FALSE
IsUnparseable(block) ==
  IF IsStr(block)
    THEN LET t == toLowerCase(trim(block.str))
             body == IF t # <<>> /\ t[1] = "-" THEN Tail(t) ELSE t
         IN t # <<>> /\ ~StartsWith0x(t) /\ (body = <<>> \/ ~AllDec(body))
    ELSE FALSE
InvalidRef(block) == IsNegativeRef(block) \/ IsMalformedHex(block) \/ IsUnparseable(block)

\* C11: normalizeBlockParam and resolveBlockNumber fail with an error on
\* every negative number, malformed hex string and unparseable string, and
\* no network request is issued for such a reference.
InvC11 ==
  /\ (loc.pure # Null /\ InvalidRef(loc.pure.block))
       => (IsThrow(loc.pure.out) /\ ~loc.pure.network)
  /\ \A c \in 1..Len(loc.calls) :
       InvalidRef(loc.calls[c].block)
         => (loc.calls[c].status = "throw" /\ ~loc.calls[c].network)

\* C12: once fetchBlockInfo has returned a BlockInfo for height h, every
\* later call for h (number, bigint, decimal or hex string of any case and
\* leading zeros) returns that BlockInfo without a network request, and the
\* cache keeps the entry.
ThmC12 ==
  /\ \A c \in 1..Len(loc.calls) :
       loc.calls[c].known # Null
         => /\ loc.calls[c].pc = "done"
            /\ loc.calls[c].status = "ok"
            /\ loc.calls[c].info = loc.calls[c].known
            /\ ~loc.calls[c].network
  /\ \A i \in loc.returned :
       /\ HexKey(i.number) \in DOMAIN blockCache
       /\ blockCache[HexKey(i.number)] = i

\* a height first fetched through a miss is asked for again as an upper-case
\* hex string with a leading zero, and the call is answered from the cache
WitC12 ==
  /\ Len(loc.calls) = 2
  /\ loc.calls[1].network
  /\ loc.calls[1].status = "ok"
  /\ loc.calls[2].block = StrRef(<<"0", "X", "0">> \o toUpperCase(toStringBase(LocHead, 16)))
  /\ loc.calls[2].known # Null
  /\ loc.calls[2].status = "ok"

\* every cache entry is the block the node holds at the key's height
CacheSound ==
  \A k \in DOMAIN blockCache :
    LET h == IF "hex" \in DOMAIN k THEN k.hex ELSE k.dec
    IN blockCache[k] = [number |-> h, timestampMs |-> chainTs[h] * 1000]

\* C13: under every interleaving of overlapping fetchBlockInfo calls a
\* written cache key keeps its (height, timestamp) pair, which is the block
\* of that height, and a missing-block result is never cached.
ThmC13 ==
  [][/\ \A k \in DOMAIN blockCache :
          k \in DOMAIN blockCache' /\ blockCache'[k] = blockCache[k]
     /\ \A k \in DOMAIN blockCache' : blockCache'[k] # Null
     /\ CacheSound']_vars

\* two overlapping calls missed the cache for the same height and both
\* wrote it
WitC13 ==
  /\ Len(loc.calls) = 2
  /\ \A c \in 1..2 :
       /\ ~IsTag(loc.calls[c].param)
       /\ loc.calls[c].network
       /\ loc.calls[c].status = "ok"
  /\ loc.calls[1].info = loc.calls[2].info

\* C14: fetchQiToQuaiSnapshots returns its snapshots in ascending block-height
\* order for an ascending and for a descending request, whatever order the
\* fetches of a chunk complete in.
ThmC14 ==
  samp.pc = "done"
  => \A j \in 1..Len(samp.ret) - 1 :
       samp.ret[j].blockNumber < samp.ret[j + 1].blockNumber

\* a descending request whose targets were fetched two at a time returned
\* several snapshots
WitC14 ==
  /\ samp.pc = "done"
  /\ ~samp.forward
  /\ samp.chunkSize = 2
  /\ Len(samp.ret) >= 3

\* index of the first snapshot that carries timestamp t
FirstWith(snapshots, t) ==
  CHOOSE j \in 1..Len(snapshots) :
    /\ snapshots[j].timestamp = t
    /\ \A k \in 1..(j - 1) : snapshots[k].timestamp # t

\* C15: the converter's output holds at most one point per timestamp, and
\* that point is computed from the first snapshot, in input order, that
\* carries the timestamp.
ThmC15 ==
  (stg.pc = "out" /\ stg.op \in {"convert", "convertRev"})
  => /\ \A j, k \in 1..Len(stg.out) :
          j # k => stg.out[j].timestamp # stg.out[k].timestamp
     /\ \A j \in 1..Len(stg.out) :
          /\ \E k \in 1..Len(stg.points) :
               stg.points[k].timestamp = stg.out[j].timestamp
          /\ LET first == stg.points[FirstWith(stg.points, stg.out[j].timestamp)]
             IN /\ stg.out[j].blockNumberHex = first.blockNumberHex
                /\ first.rate # Undefined
                /\ stg.out[j].price = RMul(RInt(HexValue(first.rate.hex)), StgUsd)

\* two snapshots with different valid rates carry one timestamp, and the
\* output has a point at it
WitC15 ==
  /\ stg.pc = "out"
  /\ stg.op = "convert"
  /\ \E j, k \in 1..Len(stg.points) :
       /\ j < k
       /\ stg.points[j].timestamp = stg.points[k].timestamp
       /\ stg.points[j].rate = RateHex(<<1>>)
       /\ stg.points[k].rate = RateHex(<<2>>)
       /\ \E m \in 1..Len(stg.out) : stg.out[m].timestamp = stg.points[j].timestamp

BucketKey(t) == (t \div StgBucketMs) * StgBucketMs
BucketKeys(points) == {BucketKey(points[j].timestamp) : j \in 1..Len(points)}

\* C16: on a timestamp-sorted input bucketing emits exactly one point per
\* distinct bucket key, in ascending key order, and the timestamp of each
\* emitted point lies in the window of its key.
ThmC16 ==
  (stg.pc = "out" /\ stg.op \in {"bucket", "bucketRev"})
  => /\ Len(stg.out) = Cardinality(BucketKeys(stg.points))
     /\ BucketKeys(stg.out) = BucketKeys(stg.points)
     /\ \A j \in 1..Len(stg.out) - 1 :
          BucketKey(stg.out[j].timestamp) < BucketKey(stg.out[j + 1].timestamp)

\* two points with different timestamps share a bucket window and collapse
\* to one point of an output of several points
WitC16 ==
  /\ stg.pc = "out"
  /\ stg.op = "bucket"
  /\ Len(stg.out) >= 2
  /\ \E j \in 1..Len(stg.points) - 1 :
       /\ stg.points[j].timestamp < stg.points[j + 1].timestamp
       /\ BucketKey(stg.points[j].timestamp) = BucketKey(stg.points[j + 1].timestamp)

\* C17: smoothPoints and removeExtremeOutliers return as many points as they
\* are given, and the i-th output point has the timestamp and the block
\* reference of the i-th input point.
ThmC17 ==
  (stg.pc = "out" /\ stg.op \in {"smooth", "outliers"})
  => /\ Len(stg.out) = Len(stg.points)
     /\ \A i \in 1..Len(stg.out) :
          /\ stg.out[i].timestamp = stg.points[i].timestamp
          /\ stg.out[i].blockNumberHex = stg.points[i].blockNumberHex

\* smoothPoints ran on a series longer than the window and changed a price
WitC17 ==
  /\ stg.pc = "out"
  /\ stg.op = "smooth"
  /\ Len(stg.points) > RANGE_SMOOTHING_WINDOW["1h"]
  /\ \E i \in 1..Len(stg.out) : stg.out[i].price # stg.points[i].price

\* removeExtremeOutliers replaced the price of an inner point
OutlierReplaced ==
  /\ stg.pc = "out"
  /\ stg.op = "outliers"
  /\ \E i \in 1..Len(stg.out) : stg.out[i].price # stg.points[i].price

\* the timestamps of a series never decrease
NonDecreasing(points) ==
  \A i \in 1..(Len(points) - 1) : points[i].timestamp <= points[i + 1].timestamp

\* C18 as stated: for every input series with non-decreasing timestamps the
\* output of densifyPoints has strictly increasing timestamps.
InvC18 ==
  (stg.pc = "out" /\ stg.op = "densify" /\ NonDecreasing(stg.points))
  => StrictlyAscending(stg.out)

\* the range has more than one densify segment and the series two points
\* or more: densifyPoints does not return its input as it is
Densifies(range, points) ==
  /\ range \in DOMAIN RANGE_DENSIFY_SEGMENTS
  /\ DensifyFactor(range) > 1
  /\ Len(points) >= 2

\* C18 amended: for every input series with non-decreasing timestamps that
\* densifyPoints does not return as it is, the output has strictly
\* increasing timestamps.
ThmC18 ==
  (stg.pc = "out" /\ stg.op = "densify" /\ NonDecreasing(stg.points)
     /\ Densifies(stg.range, stg.points))
  => StrictlyAscending(stg.out)

\* densifyPoints ran on a series that repeats a timestamp and skipped the
\* repeated point
WitC18 ==
  /\ stg.pc = "out"
  /\ stg.op = "densify"
  /\ Densifies(stg.range, stg.points)
  /\ \E i \in 1..(Len(stg.points) - 1) :
       stg.points[i].timestamp = stg.points[i + 1].timestamp
  /\ \E i \in 1..(Len(stg.points) - 1) :
       stg.points[i].timestamp < stg.points[i + 1].timestamp
  /\ Len(stg.out) > Len(stg.points)

\* the densify factor the stage frame's operation uses for its range
StgFactor ==
  IF stg.op = "densifyRev"
    THEN IF stg.range \in DOMAIN RANGE_DENSIFY_SEGMENTS_REV
           THEN RANGE_DENSIFY_SEGMENTS_REV[stg.range] ELSE 1
    ELSE DensifyFactor(stg.range)

\* densifyPoints was applied to two points t0 < t1 in a range with a factor
TwoPointsDensified ==
  /\ stg.pc = "out"
  /\ stg.op \in {"densify", "densifyRev"}
  /\ StgFactor > 1
  /\ Len(stg.points) = 2
  /\ stg.points[1].timestamp < stg.points[2].timestamp

\* C19 as stated: densifying two points {t0,p0},{t1,p1} with t0 < t1 and
\* factor F gives exactly F+1 points, the first at t0 with price p0, the last
\* at t1 with price p1, with strictly increasing timestamps, for every gap
\* of 1 ms or more.
InvC19 ==
  TwoPointsDensified
  => /\ Len(stg.out) = StgFactor + 1
     /\ stg.out[1].timestamp = stg.points[1].timestamp
     /\ stg.out[1].price = stg.points[1].price
     /\ stg.out[Len(stg.out)].timestamp = stg.points[2].timestamp
     /\ stg.out[Len(stg.out)].price = stg.points[2].price
     /\ StrictlyAscending(stg.out)

\* the probes of the back-off and bisection phases that were not answered
\* with a block
FailedProbes ==
  {j \in 1..Len(find.probes) :
     /\ find.probes[j].phase \in {"backoff", "bisect"}
     /\ find.probes[j].status # "ok"}

\* C20 as stated: after a probe of the back-off or the bisection phase that
\* cannot be fetched, the search issues no further probe and returns one of
\* the bounds it has, and the failed height is not fetched again.
InvC20 ==
  \A j \in FailedProbes :
    /\ j = Len(find.probes)
    /\ find.pc = "done"
    /\ find.ret \in {find.highInfo, find.lowInfo}
    /\ find.ret # Null

\* the stride a blockInterval option asks for, read off the option: 0 when
\* it is absent, not finite or no number
RequestedStride(blockInterval) ==
  IF blockInterval \in {Undefined, NonFinite} THEN 0
  ELSE IF "num" \in DOMAIN blockInterval THEN blockInterval.num
  ELSE IF "number" \in DOMAIN blockInterval THEN blockInterval.number
  ELSE LET v == StringToBigInt(blockInterval.str)
       IN IF v = SyntaxError THEN 0 ELSE v.value

\* its absolute value, 1 for 0
StrideC21 == Max(1, Abs(RequestedStride(samp.blockInterval)))

\* C21: the sampler targets start, start +/- s, start +/- 2s, ... toward end,
\* s being the absolute value of the requested stride (1 for 0, for an absent
\* and for an unparseable stride), and the number of targets is
\* min(maxSamples, floor(|end - start| / s) + 1).
ThmC21 ==
  samp.pc # "idle"
  => /\ Len(samp.blockTargets)
          = Min(samp.maxSamples, (Abs(samp.end - samp.start) \div StrideC21) + 1)
     /\ \A k \in 1..Len(samp.blockTargets) :
          samp.blockTargets[k] = IF samp.start <= samp.end
                                   THEN samp.start + (k - 1) * StrideC21
                                   ELSE samp.start - (k - 1) * StrideC21

\* a descending request with a negative stride given as a string, cut off by
\* maxSamples before the end height
WitC21 ==
  /\ samp.pc # "idle"
  /\ IsStr(samp.blockInterval)
  /\ RequestedStride(samp.blockInterval) < 0 - 1
  /\ samp.start > samp.end
  /\ Len(samp.blockTargets) = samp.maxSamples
  /\ Len(samp.blockTargets) >= 2
  /\ samp.blockTargets[Len(samp.blockTargets)] - StrideC21 >= samp.end

\* the average of the input prices next to index i
NeighbourAvg(points, i) ==
  RDiv(RAdd(points[i - 1].price, points[i + 1].price), RInt(2))

\* point i of the input is interior, its neighbours' spread is below half the
\* threshold times their average and its distance from that average is above
\* the threshold times the average
IsOutlier(points, i, threshold) ==
  /\ 1 < i
  /\ i < Len(points)
  /\ RLess(RAbs(RSub(points[i - 1].price, points[i + 1].price)),
           RMul(RDiv(threshold, RInt(2)), NeighbourAvg(points, i)))
  /\ RLess(RMul(threshold, NeighbourAvg(points, i)),
           RAbs(RSub(points[i].price, NeighbourAvg(points, i))))

Inserted == {j \in 1..Len(stg.out) : stg.out[j] \notin Range(stg.points)}

\* the index of the real point whose block reference point o carries
BlockIndex(o) ==
  CHOOSE i \in 1..Len(stg.points) : stg.points[i].blockNumberHex = o.blockNumberHex

\* the spread d of two prices: |a - b|, or the floor max(1e-12, 1e-3 * max(|a|, |b|))
\* when a = b
SpreadC23(a, b) ==
  IF a # b THEN RAbs(RSub(a, b))
  ELSE RMax(EPS_ABS, RMul(RMax(RAbs(a), RAbs(b)), EPS_REL))

\* price p lies within [min(a, b) - 0.35 d, max(a, b) + 0.35 d]
WithinGuard(p, a, b) ==
  /\ RLeq(RSub(RMin(a, b), RMul(Rat(35, 100), SpreadC23(a, b))), p)
  /\ RLeq(p, RAdd(RMax(a, b), RMul(Rat(35, 100), SpreadC23(a, b))))

\* C23: every price densifyPoints inserts between two consecutive real points
\* with prices a and b lies within [min(a,b) - 0.35 d, max(a,b) + 0.35 d].
ThmC23 ==
  (stg.pc = "out" /\ stg.op = "densify")
  => \A j \in Inserted :
       WithinGuard(stg.out[j].price,
                   stg.points[BlockIndex(stg.out[j])].price,
                   stg.points[BlockIndex(stg.out[j]) + 1].price)

\* an inserted price sits exactly on the lower guard of two different real
\* prices: the spline value was below it and was clamped
WitC23 ==
  /\ stg.pc = "out"
  /\ stg.op = "densify"
  /\ \E j \in Inserted :
       LET a == stg.points[BlockIndex(stg.out[j])].price
           b == stg.points[BlockIndex(stg.out[j]) + 1].price
       IN /\ a # b
          /\ stg.out[j].price = RSub(RMin(a, b), RMul(Rat(35, 100), SpreadC23(a, b)))

\* the positions of the back-off probes in the log of the search; position 1
\* is the fetch of the latest block, so the k-th back-off probe (k = 0, 1, ...)
\* is at position k + 2
BackoffProbes == {j \in 1..Len(find.probes) : find.probes[j].phase = "backoff"}

\* the timestamp, in ms, of the block a probe of the log asked for
ProbedTs(j) == chainTs[find.probes[j].block.num] * 1000

\* the probe at position j was answered with a block later than the target
\* and above height 0: the back-off goes on after it
BackoffGoesOn(j) ==
  /\ find.probes[j].status = "ok"
  /\ ProbedTs(j) > find.targetMs
  /\ find.probes[j].block.num > 0

\* C24 as stated: the k-th back-off probe is at height max(0, latest - 2^k).
InvC24 ==
  \A j \in BackoffProbes :
    find.probes[j].block = NumRef(Max(0, find.latest.number - 2 ^ (j - 2)))

\* C24 amended: the step doubles on each iteration and is subtracted from
\* the block probed before, so the k-th back-off probe is at height
\* max(0, latest - (2^(k+1) - 1)); the probing goes on exactly while the
\* probed block is fetched, is later than the target and is above height 0.
ThmC24 ==
  /\ find.pc = "backoff" => find.step = 2 ^ Cardinality(BackoffProbes)
  /\ \A j \in BackoffProbes :
       /\ find.probes[j].block
            = NumRef(Max(0, find.latest.number - (2 ^ (j - 1) - 1)))
       /\ (j + 1 \in BackoffProbes \/ find.pc = "backoff") <=> BackoffGoesOn(j)

\* three back-off probes: two blocks later than the target at latest - 1 and
\* latest - 3, then a probe clamped to height 0
WitC24 ==
  /\ Cardinality(BackoffProbes) = 3
  /\ find.latest.number > 3
  /\ find.latest.number < 7
  /\ BackoffGoesOn(2)
  /\ BackoffGoesOn(3)
  /\ find.probes[4].block = NumRef(0)
  /\ find.pc = "done"

\* C25 as stated: the start height passed to the sampler is <= the end
\* height, also when the head advances between the two fetches of "latest"
\* and when a probe returns no block.  startInfo is the block whose number is
\* passed as startBlock, latestInfo the one whose number is passed as endBlock.
InvC25 ==
  pipe.startInfo # Null => pipe.startInfo.number <= pipe.latestInfo.number

\* the target heights the pipeline asks the sampler for (lines 134-145 hand
\* the options to fetchQiToQuaiSnapshots, which builds blockTargets)
PipeTargets ==
  LET o == SamplerOptions(pipe.range, pipe.latestInfo, pipe.startInfo)
  IN BlockTargets(o.startBlock, o.endBlock,
                  toStepBigInt(NumRef(o.blockInterval)), o.maxSamples)

\* C26 as stated: the last target height the pipeline asks for is within
\* one stride of the latest block.
InvC26 ==
  pipe.startInfo # Null
  => LET o == SamplerOptions(pipe.range, pipe.latestInfo, pipe.startInfo)
     IN o.endBlock - PipeTargets[Len(PipeTargets)] <= o.blockInterval

\* the snapshots the sampler has built: those of settled rate fetches and
\* those already pushed
BuiltSnapshots ==
  {samp.task[k].snapshot :
     k \in {n \in 1..Len(samp.blockTargets) : samp.task[n].st = "snap"}}
  \cup {samp.snapshots[j] : j \in 1..Len(samp.snapshots)}

\* C27 as stated, in its weakest reading: a snapshot for block h carries the
\* rate the RPC holds for h, or no rate (a response without result, or the
\* "0" of a failed fetch), never a rate observed for another block.
InvC27 ==
  \A s \in BuiltSnapshots :
    s.rate \in {chainRate[s.blockNumber], Undefined, RateHex(<<0>>)}

\* the second half of C27: a rate fetch for a numbered block leaves the
\* last-known-rate fallback unchanged
FallbackKept == [][lastQiToQuaiRate' = lastQiToQuaiRate]_vars

\* a snapshot's rate is valid and positive: lines 158-161 let it through
ValidRate(snapshot) ==
  /\ isFinite(parseInt16(snapshot.rate))
  /\ RPos(RInt(parseInt16(snapshot.rate).value))

\* C28 as stated: a timestamp carried by at least one snapshot with a valid
\* positive rate has a point in the converter's output.
InvC28 ==
  (stg.pc = "out" /\ stg.op \in {"convert", "convertRev"})
  => \A k \in 1..Len(stg.points) :
       ValidRate(stg.points[k])
       => \E m \in 1..Len(stg.out) :
            stg.out[m].timestamp = stg.points[k].timestamp

\* the search has returned or rejected
FindSettled == find.pc \in {"done", "raised"}

\* a back-off iteration that is followed by another one has lowered the
\* high bound, to a height above 0
BackoffLowers ==
  (find.pc = "backoff" /\ find'.pc = "backoff")
  => /\ find'.highInfo.number < find.highInfo.number
     /\ find'.highInfo.number > 0

\* a bisection iteration that is not cut short by a failed request has
\* shrunk high - low, and the bounds stay in order
BisectShrinks ==
  (find.pc = "bisect" /\ find'.pc \in {"bisect", "done"})
  => /\ find'.highNum - find'.lowNum < find.highNum - find.lowNum
     /\ find'.highNum - find'.lowNum >= 1

\* C29: the search terminates whatever the probes return; each back-off
\* iteration strictly lowers the high bound and each bisection iteration
\* strictly shrinks high - low.
ThmC29 ==
  /\ <>FindSettled
  /\ [][BackoffLowers /\ BisectShrinks]_vars

\* the search has returned after two back-off iterations that went on and
\* three bisection probes, one of which returned no block
WitC29 ==
  /\ find.pc = "done"
  /\ Cardinality(BackoffProbes) >= 3
  /\ Cardinality({j \in 1..Len(find.probes) : find.probes[j].phase = "bisect"}) >= 3
  /\ \E j \in 1..Len(find.probes) :
       /\ find.probes[j].phase = "bisect"
       /\ find.probes[j].status = "null"

\* C30 as stated: fetchQuaiUsdPrice returns a finite number > 0, which is
\* the last accepted price or the built-in default, and the last accepted
\* price is always > 0.
InvC30 ==
  /\ usd.lastQuaiUsdPrice # Null => GreaterThanZero(usd.lastQuaiUsdPrice)
  /\ usd.pc = "done"
     => /\ NumberIsFinite(usd.ret)
        /\ GreaterThanZero(usd.ret)
        /\ usd.ret \in {usd.lastQuaiUsdPrice, PriceNumber(DEFAULT_QUAI_USD)}

=============================================================================
